---- MODULE Spec2Model ----
(***************************************************************************)
(* Model of the property search service (src/src/services/sparqlService.ts *)
(* and src/src/queries/queries.ts).                                        *)
(*                                                                         *)
(* Conventions.  A JavaScript string is a sequence of one-character        *)
(* strings, except for the closed vocabularies (property types, sort       *)
(* keys, error messages) which are TLA+ strings.  An optional value is a   *)
(* sequence of length 0 (undefined) or 1 (the value).  Positions in a      *)
(* text are 1-based and 0 stands for JavaScript's -1 (not found).          *)
(***************************************************************************)
EXTENDS Integers, Sequences, FiniteSets, TLC

VARIABLES pc, endpoint, params, query, requests, reply, bindings, properties,
          filteredProperties, response, error, binding, parsed

\* the query builder and the date filter called on their own
VARIABLES searchKey, queryText, filterStart, filterEnd, filteredQuery

\* the postcode service: the dataset file, the module's cached handle, and
\* the progress of one lookupPostcodes or getPostcodeRecord call
VARIABLES dataset, dbInstance, dbPathInUse, lookupPc, lookupParams,
          lookupOptions, center, radius, candidates, issued, lookupResult,
          lookupError, recordKey, recordResult

\* every handle the module has created, and the path the getDb call of the
\* call in progress resolved
VARIABLES handles, dbRequested

\* the raw arguments of the lookup-postcodes tool call in progress
VARIABLES rawParams

searchVars == <<pc, endpoint, params, query, requests, reply, bindings,
                properties, filteredProperties, response, error>>

parseVars == <<binding, parsed>>

queryVars == <<searchKey, queryText, filterStart, filterEnd, filteredQuery>>

postcodeVars == <<dataset, dbInstance, dbPathInUse, lookupPc, lookupParams,
                  lookupOptions, center, radius, candidates, issued,
                  lookupResult, lookupError, recordKey, recordResult,
                  handles, dbRequested, rawParams>>

vars == <<searchVars, parseVars, queryVars, postcodeVars>>

(* ------------------------------ bounds -------------------------------- *)

\* longest row set the remote answers with
MaxRows == 2
\* largest number drawn for a price bound, an offset or a limit under validation
MaxNumber == 1

\* most rows the postcode dataset holds
MaxRecords == 3
\* most handles the module creates in one run
MaxHandles == 3
\* most index queries one call is followed through
MaxQueries == 8
\* longest query text handed to addDateFilters on its own, in pieces
MaxQueryLen == 4

(* -------------------------- optional values --------------------------- *)

None == <<>>

Some(v) == <<v>>

IsSome(o) == o # None

Opt(S) == {None} \cup {Some(v) : v \in S}

\* truthiness of an optional string: undefined and '' are falsy
Truthy(o) == o # None /\ o[1] # <<>>

\* truthiness of an optional word of a closed vocabulary
TruthyWord(o) == o # None /\ o[1] # ""

\* x || d for an optional number: undefined and 0 are falsy
OrDefault(o, d) == IF o # None /\ o[1] # 0 THEN o[1] ELSE d

Min(a, b) == IF a <= b THEN a ELSE b

Max(a, b) == IF a >= b THEN a ELSE b

(* ------------------------------ strings ------------------------------- *)

Digits == {"0", "1", "2", "3", "4", "5", "6", "7", "8", "9"}

DigitVal(c) ==
  CASE c = "0" -> 0 [] c = "1" -> 1 [] c = "2" -> 2 [] c = "3" -> 3
    [] c = "4" -> 4 [] c = "5" -> 5 [] c = "6" -> 6 [] c = "7" -> 7
    [] c = "8" -> 8 [] c = "9" -> 9

\* UTF-16 code unit of the characters the model draws
CharCode(c) ==
  CASE c \in Digits -> 48 + DigitVal(c)
    [] c = "\"" -> 34 [] c = "-" -> 45 [] c = ":" -> 58
    [] c = "/" -> 47 [] c = "." -> 46 [] c = " " -> 32
    [] c = "A" -> 65 [] c = "C" -> 67 [] c = "P" -> 80 [] c = "S" -> 83
    [] c = "a" -> 97 [] c = "c" -> 99 [] c = "f" -> 102 [] c = "h" -> 104
    [] c = "p" -> 112 [] c = "s" -> 115 [] c = "t" -> 116 [] c = "x" -> 120
    [] OTHER -> 0

\* a < b on strings: lexicographic by code unit, a proper prefix is smaller
RECURSIVE StrLess(_, _)
StrLess(a, b) ==
  IF b = <<>> THEN FALSE
  ELSE IF a = <<>> THEN TRUE
  ELSE IF CharCode(Head(a)) < CharCode(Head(b)) THEN TRUE
  ELSE IF CharCode(Head(a)) > CharCode(Head(b)) THEN FALSE
  ELSE StrLess(Tail(a), Tail(b))

UpperChar(c) ==
  CASE c = "a" -> "A" [] c = "b" -> "B" [] c = "c" -> "C" [] c = "f" -> "F" [] c = "h" -> "H"
    [] c = "p" -> "P" [] c = "s" -> "S" [] c = "t" -> "T" [] c = "x" -> "X"
    [] OTHER -> c

\* String.prototype.toUpperCase
toUpperCase(s) == [i \in 1..Len(s) |-> UpperChar(s[i])]

\* String.prototype.startsWith
startsWith(s, prefix) ==
  Len(s) >= Len(prefix) /\ SubSeq(s, 1, Len(prefix)) = prefix

\* String.prototype.toLowerCase on the words of the property-type vocabulary
toLowerCase(w) ==
  CASE w = "FLAT" -> "flat" [] w = "Flat" -> "flat"
    [] w = "DETACHED" -> "detached" [] w = "Detached" -> "detached"
    [] w = "OTHER" -> "other"
    [] OTHER -> w

\* not-a-number, the result of parseInt on a string with no leading digit
NaN == -1

RECURSIVE parseDigits(_, _)
parseDigits(s, acc) ==
  IF s = <<>> \/ Head(s) \notin Digits THEN acc
  ELSE parseDigits(Tail(s), 10 * acc + DigitVal(Head(s)))

\* parseInt(s): the number spelled by the leading digits of s, NaN if none
parseInt(s) ==
  IF s = <<>> \/ Head(s) \notin Digits THEN NaN ELSE parseDigits(s, 0)

\* a < b, a > b, a >= b, a <= b on numbers: every comparison with NaN is false
NumLess(a, b) == a # NaN /\ b # NaN /\ a < b

NumGreater(a, b) == a # NaN /\ b # NaN /\ a > b

NumGE(a, b) == a # NaN /\ b # NaN /\ a >= b

NumLE(a, b) == a # NaN /\ b # NaN /\ a <= b

(* --------------------------- query builder ---------------------------- *)

\* s.replace(/"/g, '\\"')
RECURSIVE escapeQuotes(_)
escapeQuotes(s) ==
  IF s = <<>> THEN <<>>
  ELSE (IF Head(s) = "\"" THEN <<"\\", "\"">> ELSE <<Head(s)>>)
       \o escapeQuotes(Tail(s))

Prefixes == <<"PREFIX rdf rdfs owl xsd sr lrppi lrcommon skos">>

OptionalBlock(pattern) == <<"OPTIONAL ", "{", pattern, "}">>

getPostcodeQuery(postcode) ==
  Prefixes
  \o <<"SELECT ?amount ?date ?paon ?saon ?street ?town ?county ?postcode ?propertyType ?estateType ?newBuild ?category",
       "WHERE ", "{",
       "?transx lrppi:propertyAddress ?addr ; lrppi:pricePaid ?amount ; lrppi:transactionDate ?date ; lrppi:propertyType ?propertyType ; lrppi:transactionCategory/skos:prefLabel ?category .",
       "?addr lrcommon:postcode ", "\"">>
  \o escapeQuotes(postcode)
  \o <<"\"", " .">>
  \o OptionalBlock("?addr lrcommon:paon ?paon")
  \o OptionalBlock("?addr lrcommon:saon ?saon")
  \o OptionalBlock("?addr lrcommon:street ?street")
  \o OptionalBlock("?addr lrcommon:town ?town")
  \o OptionalBlock("?addr lrcommon:county ?county")
  \o OptionalBlock("?transx lrppi:estateType ?estateType")
  \o OptionalBlock("?transx lrppi:newBuild ?newBuild")
  \o <<"}", "ORDER BY", " DESC(?date)", "LIMIT 100">>

getAddressQuery(streetName, city, houseNumber, postcode) ==
  Prefixes
  \o <<"SELECT ?paon ?saon ?street ?town ?county ?postcode ?amount ?date ?category ?propertyType ?estateType ?newBuild",
       "WHERE ", "{",
       "?addr lrcommon:street ", "\"">>
  \o escapeQuotes(streetName)
  \o <<"\"", "^^xsd:string ;", "lrcommon:town ", "\"">>
  \o escapeQuotes(city)
  \o <<"\"", "^^xsd:string .">>
  \o (IF Truthy(houseNumber)
      THEN <<"?addr lrcommon:paon ", "\"">> \o escapeQuotes(houseNumber[1])
           \o <<"\"", "^^xsd:string .">>
      ELSE <<>>)
  \o (IF Truthy(postcode)
      THEN <<"?addr lrcommon:postcode ", "\"">> \o escapeQuotes(postcode[1])
           \o <<"\"", "^^xsd:string .">>
      ELSE <<>>)
  \o <<"?transx lrppi:propertyAddress ?addr ; lrppi:pricePaid ?amount ; lrppi:transactionDate ?date ; lrppi:transactionCategory/skos:prefLabel ?category ; lrppi:propertyType ?propertyType .">>
  \o OptionalBlock("?addr lrcommon:county ?county")
  \o OptionalBlock("?addr lrcommon:paon ?paon")
  \o OptionalBlock("?addr lrcommon:saon ?saon")
  \o OptionalBlock("?addr lrcommon:postcode ?postcode")
  \o OptionalBlock("?transx lrppi:estateType ?estateType")
  \o OptionalBlock("?transx lrppi:newBuild ?newBuild")
  \o <<"}", "ORDER BY", " DESC(?date)", "LIMIT 100">>

\* text.lastIndexOf(piece), 0 when absent
lastIndexOf(text, piece) ==
  LET hits == {i \in 1..Len(text) : text[i] = piece}
  IN  IF hits = {} THEN 0 ELSE CHOOSE i \in hits : \A j \in hits : j <= i

\* text.indexOf(piece), 0 when absent
indexOf(text, piece) ==
  LET hits == {i \in 1..Len(text) : text[i] = piece}
  IN  IF hits = {} THEN 0 ELSE CHOOSE i \in hits : \A j \in hits : i <= j

\* filterParts.join('\n')
joinLines(parts) ==
  IF Len(parts) = 0 THEN <<>>
  ELSE IF Len(parts) = 1 THEN parts[1]
  ELSE parts[1] \o <<"\n">> \o parts[2]

\* a date filter that does not compare the brace with the ORDER BY marker
addDateFilters_NoOrderCheck(q, startDate, endDate) ==
  IF ~Truthy(startDate) /\ ~Truthy(endDate) THEN q
  ELSE
    LET whereEndIndex == lastIndexOf(q, "}")
        orderByIndex == indexOf(q, "ORDER BY")
    IN  IF whereEndIndex = 0 \/ orderByIndex = 0
        THEN q
        ELSE
          LET startPart == IF Truthy(startDate)
                           THEN << <<"FILTER(?date >= ", "\"">> \o startDate[1]
                                   \o <<"\"", "^^xsd:date)">> >>
                           ELSE <<>>
              endPart == IF Truthy(endDate)
                         THEN << <<"FILTER(?date <= ", "\"">> \o endDate[1]
                                 \o <<"\"", "^^xsd:date)">> >>
                         ELSE <<>>
              filterParts == startPart \o endPart
          IN  SubSeq(q, 1, whereEndIndex - 1)
              \o <<"\n">> \o joinLines(filterParts) \o <<"\n">>
              \o SubSeq(q, whereEndIndex, Len(q))

\* a date filter that inserts before the first closing brace
addDateFilters_FirstBrace(q, startDate, endDate) ==
  IF ~Truthy(startDate) /\ ~Truthy(endDate) THEN q
  ELSE
    LET whereEndIndex == indexOf(q, "}")
        orderByIndex == indexOf(q, "ORDER BY")
    IN  IF whereEndIndex = 0 \/ orderByIndex = 0 \/ whereEndIndex > orderByIndex
        THEN q
        ELSE
          LET startPart == IF Truthy(startDate)
                           THEN << <<"FILTER(?date >= ", "\"">> \o startDate[1]
                                   \o <<"\"", "^^xsd:date)">> >>
                           ELSE <<>>
              endPart == IF Truthy(endDate)
                         THEN << <<"FILTER(?date <= ", "\"">> \o endDate[1]
                                 \o <<"\"", "^^xsd:date)">> >>
                         ELSE <<>>
              filterParts == startPart \o endPart
          IN  SubSeq(q, 1, whereEndIndex - 1)
              \o <<"\n">> \o joinLines(filterParts) \o <<"\n">>
              \o SubSeq(q, whereEndIndex, Len(q))

addDateFilters(q, startDate, endDate) ==
  IF ~Truthy(startDate) /\ ~Truthy(endDate) THEN q
  ELSE
    LET whereEndIndex == lastIndexOf(q, "}")
        orderByIndex == indexOf(q, "ORDER BY")
    IN  IF whereEndIndex = 0 \/ orderByIndex = 0 \/ whereEndIndex > orderByIndex
        THEN q
        ELSE
          LET startPart == IF Truthy(startDate)
                           THEN << <<"FILTER(?date >= ", "\"">> \o startDate[1]
                                   \o <<"\"", "^^xsd:date)">> >>
                           ELSE <<>>
              endPart == IF Truthy(endDate)
                         THEN << <<"FILTER(?date <= ", "\"">> \o endDate[1]
                                 \o <<"\"", "^^xsd:date)">> >>
                         ELSE <<>>
              filterParts == startPart \o endPart
          IN  SubSeq(q, 1, whereEndIndex - 1)
              \o <<"\n">> \o joinLines(filterParts) \o <<"\n">>
              \o SubSeq(q, whereEndIndex, Len(q))

(* --------------------------- result mapper ---------------------------- *)

DetachedUri == "http://landregistry.data.gov.uk/def/common/detached"

SemiDetachedUri == "http://landregistry.data.gov.uk/def/common/semi-detached"

TerracedUri == "http://landregistry.data.gov.uk/def/common/terraced"

FlatUri == "http://landregistry.data.gov.uk/def/common/flat-maisonette"

\* an identifier the table does not know
UnknownUri == "http://landregistry.data.gov.uk/def/common/otherPropertyType"

\* keys every object literal inherits from Object.prototype
ObjectPrototypeKeys == {"constructor", "toString", "valueOf", "hasOwnProperty"}

\* what a lookup of an inherited key yields: a truthy value that is no string
InheritedValue == "[object inherited from Object.prototype]"

mapPropertyType(propertyTypeUri) ==
  CASE propertyTypeUri = DetachedUri -> "detached"
    [] propertyTypeUri = SemiDetachedUri -> "semi-detached"
    [] propertyTypeUri = TerracedUri -> "terraced"
    [] propertyTypeUri = FlatUri -> "flat"
    [] propertyTypeUri \in ObjectPrototypeKeys -> InheritedValue
    [] OTHER -> "other"

MissingDataMessage == "Missing required property data in SPARQL response"

\* o?.value || ''
ValueOrEmpty(o) == IF o # None THEN o[1] ELSE <<>>

\* the outcome of a call: a thrown error or a returned value
Thrown(msg) == [ok |-> FALSE, error |-> msg]

Returned(v) == [ok |-> TRUE, value |-> v]

\* parsePropertyPrice requiring the category label instead of the property type
parsePropertyPrice_CategoryRequired(b) ==
  IF b.amount = None \/ b.date = None \/ b.category = None
  THEN Thrown(MissingDataMessage)
  ELSE Returned([price |-> parseInt(b.amount[1]),
                 date |-> b.date[1],
                 postcode |-> ValueOrEmpty(b.postcode),
                 propertyType |-> IF b.propertyType = None THEN "other"
                                  ELSE mapPropertyType(b.propertyType[1]),
                 street |-> ValueOrEmpty(b.street),
                 city |-> ValueOrEmpty(b.town)])

parsePropertyPrice(b) ==
  IF b.amount = None \/ b.date = None \/ b.propertyType = None
  THEN Thrown(MissingDataMessage)
  ELSE Returned([price |-> parseInt(b.amount[1]),
                 date |-> b.date[1],
                 postcode |-> ValueOrEmpty(b.postcode),
                 propertyType |-> mapPropertyType(b.propertyType[1]),
                 street |-> ValueOrEmpty(b.street),
                 city |-> ValueOrEmpty(b.town)])

\* a map that drops the rows parsePropertyPrice rejects
mapRows_SkipBad(rows) ==
  LET good == SelectSeq(rows, LAMBDA b : parsePropertyPrice(b).ok)
  IN  Returned([i \in 1..Len(good) |-> parsePropertyPrice(good[i]).value])

\* results.map(parsePropertyPrice): the first failing row aborts the map
RECURSIVE mapRows(_)
mapRows(rows) ==
  IF rows = <<>> THEN Returned(<<>>)
  ELSE LET first == parsePropertyPrice(Head(rows))
       IN  IF ~first.ok THEN first
           ELSE LET rest == mapRows(Tail(rows))
                IN  IF ~rest.ok THEN rest
                    ELSE Returned(<<first.value>> \o rest.value)

(* ------------------------- search orchestrator ------------------------ *)

EndpointMessage == "Invalid endpoint URL"

KeyMessage == "Either postcode or street and city must be provided"

MinPriceMessage == "minPrice must be non-negative"

MaxPriceMessage == "maxPrice must be non-negative"

PriceOrderMessage == "minPrice cannot be greater than maxPrice"

OffsetMessage == "offset must be non-negative"

LimitMessage == "limit must be positive"

\* validate without the minPrice <= maxPrice check
validate_NoPriceOrderCheck(e, p) ==
  IF e = <<>> \/ ~startsWith(e, <<"h", "t", "t", "p">>) THEN EndpointMessage
  ELSE IF ~Truthy(p.postcode) /\ (~Truthy(p.street) \/ ~Truthy(p.city))
  THEN KeyMessage
  ELSE IF p.minPrice # None /\ p.minPrice[1] < 0 THEN MinPriceMessage
  ELSE IF p.maxPrice # None /\ p.maxPrice[1] < 0 THEN MaxPriceMessage
  ELSE IF p.offset # None /\ p.offset[1] < 0 THEN OffsetMessage
  ELSE IF p.limit # None /\ p.limit[1] <= 0 THEN LimitMessage
  ELSE ""

\* validate with the pagination checks ahead of the price checks
validate_PaginationFirst(e, p) ==
  IF e = <<>> \/ ~startsWith(e, <<"h", "t", "t", "p">>) THEN EndpointMessage
  ELSE IF ~Truthy(p.postcode) /\ (~Truthy(p.street) \/ ~Truthy(p.city))
  THEN KeyMessage
  ELSE IF p.offset # None /\ p.offset[1] < 0 THEN OffsetMessage
  ELSE IF p.limit # None /\ p.limit[1] <= 0 THEN LimitMessage
  ELSE IF p.minPrice # None /\ p.minPrice[1] < 0 THEN MinPriceMessage
  ELSE IF p.maxPrice # None /\ p.maxPrice[1] < 0 THEN MaxPriceMessage
  ELSE IF p.minPrice # None /\ p.maxPrice # None /\ p.minPrice[1] > p.maxPrice[1]
  THEN PriceOrderMessage
  ELSE ""

\* validate rejecting a postcode given together with street and city
validate_ExclusiveKey(e, p) ==
  IF e = <<>> \/ ~startsWith(e, <<"h", "t", "t", "p">>) THEN EndpointMessage
  ELSE IF Truthy(p.postcode) = (Truthy(p.street) /\ Truthy(p.city))
  THEN KeyMessage
  ELSE IF p.minPrice # None /\ p.minPrice[1] < 0 THEN MinPriceMessage
  ELSE IF p.maxPrice # None /\ p.maxPrice[1] < 0 THEN MaxPriceMessage
  ELSE IF p.minPrice # None /\ p.maxPrice # None /\ p.minPrice[1] > p.maxPrice[1]
  THEN PriceOrderMessage
  ELSE IF p.offset # None /\ p.offset[1] < 0 THEN OffsetMessage
  ELSE IF p.limit # None /\ p.limit[1] <= 0 THEN LimitMessage
  ELSE ""

\* the validation block of searchProperties: the message thrown, "" if none
validate(e, p) ==
  IF e = <<>> \/ ~startsWith(e, <<"h", "t", "t", "p">>) THEN EndpointMessage
  ELSE IF ~Truthy(p.postcode) /\ (~Truthy(p.street) \/ ~Truthy(p.city))
  THEN KeyMessage
  ELSE IF p.minPrice # None /\ p.minPrice[1] < 0 THEN MinPriceMessage
  ELSE IF p.maxPrice # None /\ p.maxPrice[1] < 0 THEN MaxPriceMessage
  ELSE IF p.minPrice # None /\ p.maxPrice # None /\ p.minPrice[1] > p.maxPrice[1]
  THEN PriceOrderMessage
  ELSE IF p.offset # None /\ p.offset[1] < 0 THEN OffsetMessage
  ELSE IF p.limit # None /\ p.limit[1] <= 0 THEN LimitMessage
  ELSE ""

\* street and city are uppercased, everything else is copied
normalizeParams(p) ==
  [p EXCEPT !.street = IF Truthy(p.street) THEN Some(toUpperCase(p.street[1]))
                       ELSE p.street,
            !.city = IF Truthy(p.city) THEN Some(toUpperCase(p.city[1]))
                     ELSE p.city]

\* the query text handed to querySparql
buildQuery(np) ==
  LET base == IF Truthy(np.postcode)
              THEN getPostcodeQuery(np.postcode[1])
              ELSE getAddressQuery(np.street[1], np.city[1], None, None)
  IN  IF Truthy(np.fromDate) \/ Truthy(np.toDate)
      THEN addDateFilters(base, np.fromDate, np.toDate)
      ELSE base

TypeErrorMessage == "p.propertyType.toLowerCase is not a function"

\* applyFilters comparing the property type without folding the case
applyFilters_CaseSensitive(np, props) ==
  LET MinOk(r) == NumGE(r.price, np.minPrice[1])
      MaxOk(r) == NumLE(r.price, np.maxPrice[1])
      TypeOk(r) == r.propertyType = np.propertyType[1]
      afterMin == IF np.minPrice # None THEN SelectSeq(props, MinOk) ELSE props
      afterMax == IF np.maxPrice # None THEN SelectSeq(afterMin, MaxOk)
                  ELSE afterMin
  IN  IF ~TruthyWord(np.propertyType) THEN Returned(afterMax)
      ELSE Returned(SelectSeq(afterMax, TypeOk))

\* the price and property-type filters, applied in the order of the code
applyFilters(np, props) ==
  LET MinOk(r) == NumGE(r.price, np.minPrice[1])
      MaxOk(r) == NumLE(r.price, np.maxPrice[1])
      TypeOk(r) == toLowerCase(r.propertyType) = toLowerCase(np.propertyType[1])
      afterMin == IF np.minPrice # None THEN SelectSeq(props, MinOk) ELSE props
      afterMax == IF np.maxPrice # None THEN SelectSeq(afterMin, MaxOk)
                  ELSE afterMin
  IN  IF ~TruthyWord(np.propertyType) THEN Returned(afterMax)
      ELSE IF \E i \in 1..Len(afterMax) : afterMax[i].propertyType = InheritedValue
      THEN Thrown(TypeErrorMessage)
      ELSE Returned(SelectSeq(afterMax, TypeOk))

\* the comparator handed to Array.prototype.sort
compareProperties(a, b, sortField, sortOrder) ==
  LET less == IF sortField = "price" THEN NumLess(a.price, b.price)
              ELSE StrLess(a.date, b.date)
      greater == IF sortField = "price" THEN NumGreater(a.price, b.price)
                 ELSE StrLess(b.date, a.date)
  IN  IF less THEN (-1) * sortOrder
      ELSE IF greater THEN 1 * sortOrder
      ELSE 0

\* Array.prototype.sort is a stable sort: insertion from the left
RECURSIVE insertSorted(_, _, _, _)
insertSorted(x, s, sortField, sortOrder) ==
  IF s = <<>> THEN <<x>>
  ELSE IF compareProperties(x, s[Len(s)], sortField, sortOrder) < 0
  THEN insertSorted(x, SubSeq(s, 1, Len(s) - 1), sortField, sortOrder)
       \o <<s[Len(s)]>>
  ELSE s \o <<x>>

RECURSIVE stableSort(_, _, _)
stableSort(s, sortField, sortOrder) ==
  IF s = <<>> THEN <<>>
  ELSE insertSorted(s[Len(s)],
                    stableSort(SubSeq(s, 1, Len(s) - 1), sortField, sortOrder),
                    sortField, sortOrder)

\* applySort with ascending as the direction of an omitted sortOrder
applySort_DefaultAscending(np, props) ==
  IF TruthyWord(np.sortBy)
  THEN LET sortField == IF np.sortBy[1] = "price" THEN "price" ELSE "date"
           sortOrder == IF np.sortOrder = Some("desc") THEN -1 ELSE 1
       IN  stableSort(props, sortField, sortOrder)
  ELSE props

\* the sorting block of searchProperties
applySort(np, props) ==
  IF TruthyWord(np.sortBy)
  THEN LET sortField == IF np.sortBy[1] = "price" THEN "price" ELSE "date"
           sortOrder == IF np.sortOrder = Some("asc") THEN 1 ELSE -1
       IN  stableSort(props, sortField, sortOrder)
  ELSE props

\* a slice that keeps the whole array
slice_Whole(s, start, end) == s

\* Array.prototype.slice(start, end) for 0 <= start <= end
slice(s, start, end) == SubSeq(s, start + 1, Min(end, Len(s)))

DefaultLimit == 10

\* paginate reporting the length of the page as the total
paginate_TotalOfPage(np, props) ==
  LET offset == OrDefault(np.offset, 0)
      limit == OrDefault(np.limit, DefaultLimit)
  IN  [properties |-> slice(props, offset, offset + limit),
       total |-> Len(slice(props, offset, offset + limit)),
       offset |-> offset,
       limit |-> limit]

\* paginate slicing up to limit instead of offset + limit
paginate_SliceToLimit(np, props) ==
  LET offset == OrDefault(np.offset, 0)
      limit == OrDefault(np.limit, DefaultLimit)
  IN  [properties |-> slice(props, offset, limit),
       total |-> Len(props),
       offset |-> offset,
       limit |-> limit]

\* the pagination block of searchProperties
paginate(np, props) ==
  LET offset == OrDefault(np.offset, 0)
      limit == OrDefault(np.limit, DefaultLimit)
  IN  [properties |-> slice(props, offset, offset + limit),
       total |-> Len(props),
       offset |-> offset,
       limit |-> limit]

(* ------------------------------ inputs -------------------------------- *)

HttpEndpoint == <<"h", "t", "t", "p", ":", "/", "/", "x">>

HttpsEndpoint == <<"h", "t", "t", "p", "s", ":", "/", "/", "x">>

\* endpoints that fail the check: empty, a proper prefix of 'http', another scheme
BadEndpoints == {<<>>, <<"h", "t", "t">>, <<"f", "t", "p", ":", "/", "/", "x">>}

Date23 == <<"2", "0", "2", "3">>

Date24 == <<"2", "0", "2", "4">>

\* the rows of a price-paid answer: amount, date and property type vary
PipelineBindings ==
  [amount : {Some(<<"1">>), Some(<<"2">>)},
   date : {Some(Date23), Some(Date24)},
   postcode : {Some(<<"P">>)},
   propertyType : {Some(FlatUri), Some(DetachedUri)},
   street : {Some(<<"S">>)},
   town : {Some(<<"C">>)},
   paon : {None},
   saon : {None},
   category : {None}]

\* rows with every field present or absent, empty or not
ParseBindings ==
  [amount : Opt({<<>>, <<"1", "2">>, <<"x">>}),
   date : Opt({<<>>, Date23}),
   postcode : Opt({<<>>, <<"P">>}),
   propertyType : Opt({"", FlatUri, UnknownUri, "constructor"}),
   street : Opt({<<>>, <<"S">>}),
   town : Opt({<<>>, <<"C">>}),
   paon : Opt({<<"1", "0">>}),
   saon : Opt({<<"A">>}),
   category : Opt({"Standard price paid transaction"})]

GoodBinding ==
  [amount |-> Some(<<"1">>), date |-> Some(Date23), postcode |-> Some(<<"P">>),
   propertyType |-> Some(FlatUri), street |-> Some(<<"S">>),
   town |-> Some(<<"C">>), paon |-> Some(<<"1", "0">>), saon |-> None,
   category |-> None]

\* a row without its date
BadBinding == [GoodBinding EXCEPT !.date = None]

SeqsUpTo(S, n) == UNION {[1..k -> S] : k \in 0..n}

PipelineRows == SeqsUpTo(PipelineBindings, MaxRows)

ValidationRows == {<<>>, <<GoodBinding>>, <<GoodBinding, BadBinding>>}

\* criteria that exercise every validation check and every identifying form
ValidationParams ==
  [postcode : Opt({<<>>, <<"p">>}),
   street : Opt({<<"s">>}),
   city : Opt({<<"c">>}),
   minPrice : Opt(-1..MaxNumber),
   maxPrice : Opt(-1..MaxNumber),
   propertyType : {None},
   fromDate : Opt({Date23}),
   toDate : {None},
   limit : Opt(-1..MaxNumber),
   offset : Opt(-1..MaxNumber),
   sortBy : {None},
   sortOrder : {None}]

\* criteria that exercise the filters, the sort and the pagination
PipelineParams ==
  [postcode : {Some(<<"p">>)},
   street : {None},
   city : {None},
   minPrice : Opt({0, 2}),
   maxPrice : Opt({1}),
   propertyType : Opt({"FLAT"}),
   fromDate : {None},
   toDate : {None},
   limit : Opt({1, 2}),
   offset : Opt({0, 1, 2}),
   sortBy : Opt({"date", "price"}),
   sortOrder : Opt({"asc", "desc"})]

NoParams ==
  [postcode |-> None, street |-> None, city |-> None, minPrice |-> None,
   maxPrice |-> None, propertyType |-> None, fromDate |-> None,
   toDate |-> None, limit |-> None, offset |-> None, sortBy |-> None,
   sortOrder |-> None]

\* replies of the remote with a non-success status, with their body text
ErrorReplies ==
  [ok : {FALSE}, status : {400, 500},
   text : {"Invalid query", "Internal Server Error"}]

\* a reply with a success status
OkReply == [ok |-> TRUE, status |-> 200, text |-> ""]

NoBinding ==
  [amount |-> None, date |-> None, postcode |-> None, propertyType |-> None,
   street |-> None, town |-> None, paon |-> None, saon |-> None,
   category |-> None]

(* --------------------------- postcode service ------------------------- *)

DEFAULT_DB_PATH == "data/postcodes.sqlite"

DEFAULT_RADIUS == 5000

MAX_RADIUS == 200000

\* process.env.POSTCODE_DB_PATH, not set
POSTCODE_DB_PATH == None

\* the files fs.existsSync finds: two datasets and a directory
DbFiles == {DEFAULT_DB_PATH, "other.sqlite", "data"}

\* existing paths that new Database cannot open
UnopenableFiles == {"data"}

\* the postcodes table of the dataset at a path; other.sqlite holds no rows
rowsAt(path, defaultRows) ==
  IF path = DEFAULT_DB_PATH THEN defaultRows ELSE <<>>

resolveDbPath(customPath) ==
  IF TruthyWord(customPath) THEN customPath[1]
  ELSE IF TruthyWord(POSTCODE_DB_PATH) THEN POSTCODE_DB_PATH[1]
  ELSE DEFAULT_DB_PATH

\* a getDb that opens a new handle without closing the cached one
getDb_KeepOpen(hs, instance, pathInUse, dbPath) ==
  LET resolvedPath == resolveDbPath(dbPath)
  IN  IF instance # None /\ pathInUse = Some(resolvedPath)
      THEN [ok |-> TRUE, error |-> None, handles |-> hs,
            dbInstance |-> instance, dbPathInUse |-> pathInUse]
      ELSE IF resolvedPath \notin DbFiles
      THEN [ok |-> FALSE,
            error |-> <<"Postcode database not found", resolvedPath>>,
            handles |-> hs, dbInstance |-> instance, dbPathInUse |-> pathInUse]
      ELSE IF resolvedPath \in UnopenableFiles
      THEN [ok |-> FALSE,
            error |-> <<"unable to open database file", resolvedPath>>,
            handles |-> hs, dbInstance |-> instance, dbPathInUse |-> pathInUse]
      ELSE [ok |-> TRUE, error |-> None,
            handles |-> Append(hs, [path |-> resolvedPath, open |-> TRUE,
                                    readonly |-> TRUE]),
            dbInstance |-> Some(Len(hs) + 1),
            dbPathInUse |-> Some(resolvedPath)]

\* a getDb that opens a fresh handle on every call
getDb_AlwaysOpen(hs, instance, pathInUse, dbPath) ==
  LET resolvedPath == resolveDbPath(dbPath)
      closed == IF instance # None
                THEN [hs EXCEPT ![instance[1]].open = FALSE]
                ELSE hs
  IN  IF resolvedPath \notin DbFiles
      THEN [ok |-> FALSE,
            error |-> <<"Postcode database not found", resolvedPath>>,
            handles |-> hs, dbInstance |-> instance, dbPathInUse |-> pathInUse]
      ELSE IF resolvedPath \in UnopenableFiles
      THEN [ok |-> FALSE,
            error |-> <<"unable to open database file", resolvedPath>>,
            handles |-> closed, dbInstance |-> instance,
            dbPathInUse |-> pathInUse]
      ELSE [ok |-> TRUE, error |-> None,
            handles |-> Append(closed, [path |-> resolvedPath, open |-> TRUE,
                                        readonly |-> TRUE]),
            dbInstance |-> Some(Len(hs) + 1),
            dbPathInUse |-> Some(resolvedPath)]

\* getDb on the handles created so far (hs) and the cache (instance is the
\* place of the cached handle in hs): the outcome, the handles and the cache
\* it leaves.  dbInstance?.close() comes before new Database(...), and the
\* two assignments come after it, so an open that throws leaves the closed
\* handle and its path in the cache.
getDb(hs, instance, pathInUse, dbPath) ==
  LET resolvedPath == resolveDbPath(dbPath)
      closed == IF instance # None
                THEN [hs EXCEPT ![instance[1]].open = FALSE]
                ELSE hs
  IN  IF instance # None /\ pathInUse = Some(resolvedPath)
      THEN [ok |-> TRUE, error |-> None, handles |-> hs,
            dbInstance |-> instance, dbPathInUse |-> pathInUse]
      ELSE IF resolvedPath \notin DbFiles
      THEN [ok |-> FALSE,
            error |-> <<"Postcode database not found", resolvedPath>>,
            handles |-> hs, dbInstance |-> instance, dbPathInUse |-> pathInUse]
      ELSE IF resolvedPath \in UnopenableFiles
      THEN [ok |-> FALSE,
            error |-> <<"unable to open database file", resolvedPath>>,
            handles |-> closed, dbInstance |-> instance,
            dbPathInUse |-> pathInUse]
      ELSE [ok |-> TRUE, error |-> None,
            handles |-> Append(closed, [path |-> resolvedPath, open |-> TRUE,
                                        readonly |-> TRUE]),
            dbInstance |-> Some(Len(hs) + 1),
            dbPathInUse |-> Some(resolvedPath)]

\* String.prototype.trim
trim(s) ==
  LET kept == {i \in 1..Len(s) : s[i] \notin {" ", "\t", "\n"}}
  IN  IF kept = {} THEN <<>>
      ELSE SubSeq(s, CHOOSE i \in kept : \A j \in kept : i <= j,
                  CHOOSE i \in kept : \A j \in kept : j <= i)

normalizePostcode(postcode) == toUpperCase(trim(postcode))

mapRow(row) ==
  [postcode |-> row.postcode,
   positionalQuality |-> row.positional_quality,
   easting |-> row.easting,
   northing |-> row.northing,
   countryCode |-> row.country_code,
   nhsRegionalHaCode |-> row.nhs_regional_ha_code,
   nhsHaCode |-> row.nhs_ha_code,
   adminCountyCode |-> row.admin_county_code,
   adminDistrictCode |-> row.admin_district_code,
   adminWardCode |-> row.admin_ward_code]

\* a record fetch that matches the key as typed
getPostcodeRecord_AsTyped(rows, postcode) ==
  LET hits == {i \in 1..Len(rows) : rows[i].postcode = postcode}
  IN  IF hits = {} THEN None
      ELSE Some(mapRow(rows[CHOOSE i \in hits : TRUE]))

\* getPostcodeRecord on the rows of the opened dataset: SELECT ... WHERE
\* postcode = ? on the normalised key; postcode is the primary key
getPostcodeRecord(rows, postcode) ==
  LET normalized == normalizePostcode(postcode)
      hits == {i \in 1..Len(rows) : rows[i].postcode = normalized}
  IN  IF hits = {} THEN None
      ELSE Some(mapRow(rows[CHOOSE i \in hits : TRUE]))

\* an index query without the district condition
queryByRadius_AnyDistrict(rows, centerE, centerN, searchRadius, adminDistrict, rowLimit) ==
  LET selected(row) ==
        /\ row.easting >= centerE - searchRadius
        /\ row.easting <= centerE + searchRadius
        /\ row.northing >= centerN - searchRadius
        /\ row.northing <= centerN + searchRadius
      found == SelectSeq(rows, selected)
  IN  [i \in 1..Min(Len(found), rowLimit) |-> mapRow(found[i])]

\* queryByRadius: the rows whose index entry (the point easting, northing)
\* meets the bounding box, in index order, cut at the row limit
queryByRadius(rows, centerE, centerN, searchRadius, adminDistrict, rowLimit) ==
  LET minX == centerE - searchRadius
      maxX == centerE + searchRadius
      minY == centerN - searchRadius
      maxY == centerN + searchRadius
      selected(row) ==
        /\ row.easting >= minX /\ row.easting <= maxX
        /\ row.northing >= minY /\ row.northing <= maxY
        /\ TruthyWord(adminDistrict) => row.admin_district_code = adminDistrict[1]
      found == SelectSeq(rows, selected)
  IN  [i \in 1..Min(Len(found), rowLimit) |-> mapRow(found[i])]

\* the default of queryByRadius's limit parameter
QueryRowLimit == 2000

\* Math.sqrt(n), kept as the number it is the root of: for integers
\* sqrt(a) - sqrt(b) has the sign of a - b, and sqrt(a) > r iff a > r * r
Sqrt(n) == [sqrtOf |-> n]

\* params.limit ?? 10
lookupLimit(p) == IF p.limit = None THEN 10 ELSE p.limit[1]

\* the condition of the expansion loop
loopContinues(p, found, searchRadius) ==
  Len(found) < lookupLimit(p) /\ searchRadius <= MAX_RADIUS

\* an expansion that adds the default radius instead of doubling
expandRadius_AddDefault(p, found, searchRadius) ==
  IF Len(found) < lookupLimit(p) THEN searchRadius + DEFAULT_RADIUS
  ELSE searchRadius

\* the radius after a query that did not end the loop
expandRadius(p, found, searchRadius) ==
  IF Len(found) < lookupLimit(p) THEN searchRadius * 2 ELSE searchRadius

\* a filter without the circle test
keepCandidate_BoxOnly(p, record) ==
  LET includeSelf == IF p.includeSelf = None THEN FALSE ELSE p.includeSelf[1]
  IN  ~(/\ ~includeSelf
        /\ Truthy(p.postcode)
        /\ record.postcode = normalizePostcode(p.postcode[1]))

\* a filter that never drops the center's own postcode
keepCandidate_KeepSelf(p, record) ==
  ~(/\ p.radiusMeters # None
    /\ record.distanceMeters.sqrtOf > p.radiusMeters[1] * p.radiusMeters[1])

\* the filter over the candidates with their distance
keepCandidate(p, record) ==
  LET includeSelf == IF p.includeSelf = None THEN FALSE ELSE p.includeSelf[1]
  IN  /\ ~(/\ ~includeSelf
           /\ Truthy(p.postcode)
           /\ record.postcode = normalizePostcode(p.postcode[1]))
      /\ ~(/\ p.radiusMeters # None
           /\ record.distanceMeters.sqrtOf > p.radiusMeters[1] * p.radiusMeters[1])

\* Array.prototype.sort((a, b) => a.distanceMeters - b.distanceMeters): stable
RECURSIVE sortByDistance(_)
sortByDistance(s) ==
  IF s = <<>> THEN <<>>
  ELSE LET x == s[Len(s)]
           sorted == sortByDistance(SubSeq(s, 1, Len(s) - 1))
       IN  SelectSeq(sorted, LAMBDA y : y.distanceMeters.sqrtOf <= x.distanceMeters.sqrtOf)
           \o <<x>>
           \o SelectSeq(sorted, LAMBDA y : y.distanceMeters.sqrtOf > x.distanceMeters.sqrtOf)

\* a pipeline that filters but does not sort
withDistance_Unsorted(p, c, found) ==
  LET measured ==
        [i \in 1..Len(found) |->
           LET dx == found[i].easting - c.easting
               dy == found[i].northing - c.northing
           IN  [postcode |-> found[i].postcode,
                positionalQuality |-> found[i].positionalQuality,
                easting |-> found[i].easting,
                northing |-> found[i].northing,
                countryCode |-> found[i].countryCode,
                nhsRegionalHaCode |-> found[i].nhsRegionalHaCode,
                nhsHaCode |-> found[i].nhsHaCode,
                adminCountyCode |-> found[i].adminCountyCode,
                adminDistrictCode |-> found[i].adminDistrictCode,
                adminWardCode |-> found[i].adminWardCode,
                distanceMeters |-> Sqrt(dx * dx + dy * dy)]]
  IN  SelectSeq(measured, LAMBDA record : keepCandidate(p, record))

\* candidates.map(...).filter(...).sort(...)
withDistance(p, c, found) ==
  LET measured ==
        [i \in 1..Len(found) |->
           LET dx == found[i].easting - c.easting
               dy == found[i].northing - c.northing
           IN  [postcode |-> found[i].postcode,
                positionalQuality |-> found[i].positionalQuality,
                easting |-> found[i].easting,
                northing |-> found[i].northing,
                countryCode |-> found[i].countryCode,
                nhsRegionalHaCode |-> found[i].nhsRegionalHaCode,
                nhsHaCode |-> found[i].nhsHaCode,
                adminCountyCode |-> found[i].adminCountyCode,
                adminDistrictCode |-> found[i].adminDistrictCode,
                adminWardCode |-> found[i].adminWardCode,
                distanceMeters |-> Sqrt(dx * dx + dy * dy)]]
  IN  sortByDistance(SelectSeq(measured, LAMBDA record : keepCandidate(p, record)))

\* the center built from the coordinates of the call
syntheticCenter(p) ==
  [postcode |-> <<>>, positionalQuality |-> 0,
   easting |-> p.easting[1], northing |-> p.northing[1],
   countryCode |-> "", nhsRegionalHaCode |-> "", nhsHaCode |-> "",
   adminCountyCode |-> "", adminDistrictCode |-> "", adminWardCode |-> ""]

(* --------------------------- state machine ---------------------------- *)

\* no call in progress
Idle ==
  /\ pc = "idle"
  /\ endpoint = <<>>
  /\ params = NoParams
  /\ query = None
  /\ requests = 0
  /\ reply = None
  /\ bindings = <<>>
  /\ properties = <<>>
  /\ filteredProperties = <<>>
  /\ response = None
  /\ error = None

\* the query builder has not been called
QueriesIdle ==
  /\ searchKey = None
  /\ queryText = None
  /\ filterStart = None
  /\ filterEnd = None
  /\ filteredQuery = None

\* no dataset handle is cached and no postcode call is in progress
LookupIdle ==
  /\ handles = <<>>
  /\ dbRequested = None
  /\ rawParams = None
  /\ dbInstance = None
  /\ dbPathInUse = None
  /\ lookupPc = "idle"
  /\ lookupParams = None
  /\ lookupOptions = None
  /\ center = None
  /\ radius = 0
  /\ candidates = <<>>
  /\ issued = <<>>
  /\ lookupResult = None
  /\ lookupError = None
  /\ recordKey = None
  /\ recordResult = None

\* the postcode service has not been called
PostcodeIdle ==
  /\ dataset = <<>>
  /\ LookupIdle

Init ==
  /\ Idle
  /\ binding = NoBinding
  /\ parsed = None
  /\ QueriesIdle
  /\ PostcodeIdle

\* searchProperties up to its first await: validation, normalisation, query
\* construction and the fetch that querySparql issues
SearchCall(Endpoints, Criteria) ==
  /\ pc = "idle"
  /\ \E e \in Endpoints, p \in Criteria :
       LET message == validate(e, p)
       IN  /\ endpoint' = e
           /\ params' = p
           /\ IF message # ""
              THEN /\ pc' = "failed"
                   /\ error' = <<message>>
                   /\ query' = None
                   /\ requests' = 0
              ELSE /\ pc' = "awaiting"
                   /\ error' = None
                   /\ query' = Some(buildQuery(normalizeParams(p)))
                   /\ requests' = requests + 1
  /\ UNCHANGED <<reply, bindings, properties, filteredProperties, response>>
  /\ UNCHANGED <<parseVars, queryVars, postcodeVars>>

\* the remote answers with a non-success status: querySparql throws
RemoteHttpError ==
  /\ pc = "awaiting"
  /\ \E r \in ErrorReplies :
       /\ reply' = Some(r)
       /\ error' = <<"HTTP error", r.status, r.text>>
  /\ pc' = "failed"
  /\ UNCHANGED <<endpoint, params, query, requests, bindings, properties,
                 filteredProperties, response>>
  /\ UNCHANGED <<parseVars, queryVars, postcodeVars>>

\* fetch rejects: querySparql rethrows
TransportFailure ==
  /\ pc = "awaiting"
  /\ error' = <<"fetch failed">>
  /\ pc' = "failed"
  /\ UNCHANGED <<endpoint, params, query, requests, reply, bindings,
                 properties, filteredProperties, response>>
  /\ UNCHANGED <<parseVars, queryVars, postcodeVars>>

\* the remote answers with rows: searchProperties maps, filters, sorts and
\* paginates them and returns
RemoteRows(Rows) ==
  /\ pc = "awaiting"
  /\ \E rows \in Rows :
       LET np == normalizeParams(params)
           mapped == mapRows(rows)
           filtered == IF mapped.ok THEN applyFilters(np, mapped.value)
                       ELSE mapped
       IN  /\ reply' = Some(OkReply)
           /\ bindings' = rows
           /\ IF ~mapped.ok
              THEN /\ pc' = "failed"
                   /\ error' = <<mapped.error>>
                   /\ UNCHANGED <<properties, filteredProperties, response>>
              ELSE IF ~filtered.ok
              THEN /\ pc' = "failed"
                   /\ error' = <<filtered.error>>
                   /\ properties' = mapped.value
                   /\ UNCHANGED <<filteredProperties, response>>
              ELSE LET sorted == applySort(np, filtered.value)
                   IN  /\ pc' = "done"
                       /\ error' = None
                       /\ properties' = mapped.value
                       /\ filteredProperties' = sorted
                       /\ response' = Some(paginate(np, sorted))
  /\ UNCHANGED <<endpoint, params, query, requests>>
  /\ UNCHANGED <<parseVars, queryVars, postcodeVars>>

\* the caller takes the result or the error; the next call starts afresh
Return ==
  /\ pc \in {"done", "failed"}
  /\ pc' = "idle"
  /\ endpoint' = <<>>
  /\ params' = NoParams
  /\ query' = None
  /\ requests' = 0
  /\ reply' = None
  /\ bindings' = <<>>
  /\ properties' = <<>>
  /\ filteredProperties' = <<>>
  /\ response' = None
  /\ error' = None
  /\ UNCHANGED <<parseVars, queryVars, postcodeVars>>

\* searches over the filter, sort and pagination criteria
PipelineCall == SearchCall({HttpsEndpoint}, PipelineParams)

PipelineRowsArrive == RemoteRows(PipelineRows)

Next ==
  \/ PipelineCall
  \/ PipelineRowsArrive
  \/ RemoteHttpError
  \/ TransportFailure
  \/ Return

Spec == Init /\ [][Next]_vars

\* searches over valid and invalid endpoints and criteria
ValidationCall ==
  SearchCall(BadEndpoints \cup {HttpEndpoint, HttpsEndpoint}, ValidationParams)

ValidationRowsArrive == RemoteRows(ValidationRows)

NextValidation ==
  \/ ValidationCall
  \/ ValidationRowsArrive
  \/ RemoteHttpError
  \/ TransportFailure
  \/ Return

SpecValidation == Init /\ [][NextValidation]_vars

\* criteria with date bounds, over keys that hold the builder's own markers
DateParams ==
  [postcode : Opt({<<"p">>, <<"ORDER BY">>, <<"}">>, <<"p", "ORDER BY", "1">>}),
   street : Opt({<<"s">>, <<"ORDER BY">>}),
   city : Opt({<<"c">>, <<"}">>}),
   minPrice : {None},
   maxPrice : {None},
   propertyType : {None},
   fromDate : Opt({Date23}),
   toDate : Opt({Date24}),
   limit : {None},
   offset : {None},
   sortBy : {None},
   sortOrder : {None}]

DatesCall == SearchCall({HttpsEndpoint}, DateParams)

DatesRowsArrive == RemoteRows(ValidationRows)

NextDates ==
  \/ DatesCall
  \/ DatesRowsArrive
  \/ RemoteHttpError
  \/ TransportFailure
  \/ Return

SpecDates == Init /\ [][NextDates]_vars

\* one row handed to parsePropertyPrice
InitParse ==
  /\ Idle
  /\ binding \in ParseBindings
  /\ parsed = None
  /\ QueriesIdle
  /\ PostcodeIdle

ParseRow ==
  /\ parsed = None
  /\ parsed' = Some(parsePropertyPrice(binding))
  /\ UNCHANGED <<searchVars, binding, queryVars, postcodeVars>>

NextParse == ParseRow

SpecParse == InitParse /\ [][NextParse]_vars

(* ----------------- the query builder called on its own ---------------- *)

\* the pieces a query text handed to addDateFilters is made of
QueryTokens == {"}", "ORDER BY", "x"}

QueryTexts == SeqsUpTo(QueryTokens, MaxQueryLen)

\* a date bound: undefined, the empty string or a date
DateBounds == Opt({<<>>, Date23})

\* search keys with and without embedded double quotes
KeyTexts == {<<"p">>, <<"\"">>, <<"p", "\"", "q">>}

NoKey == [postcode |-> None, street |-> None, city |-> None]

BuildPostcodeQuery ==
  /\ queryText = None
  /\ \E p \in KeyTexts :
       /\ searchKey' = Some([NoKey EXCEPT !.postcode = Some(p)])
       /\ queryText' = Some(getPostcodeQuery(p))
  /\ UNCHANGED <<filterStart, filterEnd, filteredQuery>>
  /\ UNCHANGED <<searchVars, parseVars, postcodeVars>>

BuildAddressQuery ==
  /\ queryText = None
  /\ \E s \in KeyTexts, c \in KeyTexts :
       /\ searchKey' = Some([NoKey EXCEPT !.street = Some(s), !.city = Some(c)])
       /\ queryText' = Some(getAddressQuery(s, c, None, None))
  /\ UNCHANGED <<filterStart, filterEnd, filteredQuery>>
  /\ UNCHANGED <<searchVars, parseVars, postcodeVars>>

\* a caller of addDateFilters brings a query text of its own
TakeQueryText ==
  /\ queryText = None
  /\ \E t \in QueryTexts : queryText' = Some(t)
  /\ UNCHANGED <<searchKey, filterStart, filterEnd, filteredQuery>>
  /\ UNCHANGED <<searchVars, parseVars, postcodeVars>>

ApplyDateFilters ==
  /\ queryText # None
  /\ filteredQuery = None
  /\ \E s \in DateBounds, e \in DateBounds :
       /\ filterStart' = s
       /\ filterEnd' = e
       /\ filteredQuery' = Some(addDateFilters(queryText[1], s, e))
  /\ UNCHANGED <<searchKey, queryText>>
  /\ UNCHANGED <<searchVars, parseVars, postcodeVars>>

QueriesReset ==
  /\ filteredQuery # None
  /\ searchKey' = None
  /\ queryText' = None
  /\ filterStart' = None
  /\ filterEnd' = None
  /\ filteredQuery' = None
  /\ UNCHANGED <<searchVars, parseVars, postcodeVars>>

NextQueries ==
  \/ BuildPostcodeQuery
  \/ BuildAddressQuery
  \/ TakeQueryText
  \/ ApplyDateFilters
  \/ QueriesReset

SpecQueries == Init /\ [][NextQueries]_vars

(* ------------------------ postcode lookup calls ----------------------- *)

PostcodeRow(code, e, n, district, ward) ==
  [postcode |-> code, positional_quality |-> 10, easting |-> e,
   northing |-> n, country_code |-> "C1", nhs_regional_ha_code |-> "NR1",
   nhs_ha_code |-> "NH1", admin_county_code |-> "AC1",
   admin_district_code |-> district, admin_ward_code |-> ward]

PostcodeOf(last) == <<"A", "A", "1", " ", "1", "A", last>>

\* the rows a dataset is drawn from: the center AA1 1AA, a close neighbour,
\* a neighbour in another district, a neighbour in the corner of the 50 m
\* box, a neighbour beyond the default radius and one at the center's point
PostcodeRows ==
  {PostcodeRow(PostcodeOf("A"), 1000, 1000, "AD1", "AW1"),
   PostcodeRow(PostcodeOf("B"), 1005, 1005, "AD1", "AW1"),
   PostcodeRow(PostcodeOf("C"), 1200, 1200, "AD2", "AW2"),
   PostcodeRow(PostcodeOf("D"), 1040, 1040, "AD1", "AW1"),
   PostcodeRow(PostcodeOf("E"), 1000, 8000, "AD2", "AW2"),
   PostcodeRow(PostcodeOf("F"), 1000, 1000, "AD1", "AW1")}

\* the table in index order; postcode is its primary key
Datasets ==
  {d \in SeqsUpTo(PostcodeRows, MaxRecords) :
     \A i, j \in 1..Len(d) : i # j => d[i].postcode # d[j].postcode}

CenterKey == <<"a", "a", "1", " ", "1", "a", "a">>

AbsentKey == <<"Z", "Z", "9", " ", "9", "Z", "Z">>

\* parameters PostcodeLookupParamsSchema accepts: a postcode or both
\* coordinates, a positive limit, a positive radius
LookupCriteria ==
  [postcode : {Some(CenterKey), Some(AbsentKey)},
   easting : {None},
   northing : {None},
   limit : Opt({1, 2}),
   radiusMeters : Opt({50}),
   includeSelf : Opt(BOOLEAN),
   adminDistrict : Opt({"AD2"})]
  \cup
  [postcode : {None},
   easting : {Some(1000)},
   northing : {Some(1000)},
   limit : Opt({1, 2}),
   radiusMeters : Opt({50}),
   includeSelf : Opt(BOOLEAN),
   adminDistrict : Opt({"AD2"})]

LookupOptions == [dbPath : Opt({"missing.sqlite"})]

\* keys for getPostcodeRecord: the stored AA1 1AA in other letter case, with
\* surrounding, missing and repeated spaces, and a postcode never stored
RecordKeys ==
  {CenterKey,
   <<" ", "A", "A", "1", " ", "1", "A", "A", " ">>,
   <<"A", "A", "1", "1", "A", "A">>,
   <<"a", "a", "1", " ", " ", "1", "a", "a">>,
   PostcodeOf("B"),
   AbsentKey}

InitLookup ==
  /\ Idle
  /\ binding = NoBinding
  /\ parsed = None
  /\ QueriesIdle
  /\ dataset \in Datasets
  /\ LookupIdle

\* db.prepare on a closed handle throws
NotOpenMessage == "The database connection is not open"

\* lookupPostcodes up to its loop: the handle, the defaults and the center.
\* The getDb call inside getPostcodeRecord resolves the same path and finds
\* the handle the first call cached.
lookupPostcodes(p, o) ==
  LET db == getDb(handles, dbInstance, dbPathInUse, o.dbPath)
      usable == db.ok /\ db.handles[db.dbInstance[1]].open
      rows == rowsAt(db.dbPathInUse[1], dataset)
      record == IF Truthy(p.postcode)
                THEN getPostcodeRecord(rows, p.postcode[1])
                ELSE None
  IN  /\ lookupParams' = Some(p)
      /\ lookupOptions' = Some(o)
      /\ dbRequested' = Some(resolveDbPath(o.dbPath))
      /\ handles' = db.handles
      /\ dbInstance' = db.dbInstance
      /\ dbPathInUse' = db.dbPathInUse
      /\ IF ~db.ok
         THEN /\ lookupPc' = "failed"
              /\ lookupError' = Some(db.error)
              /\ UNCHANGED <<center, radius>>
         ELSE IF Truthy(p.postcode) /\ ~usable
         THEN /\ lookupPc' = "failed"
              /\ lookupError' = Some(<<NotOpenMessage>>)
              /\ UNCHANGED <<center, radius>>
         ELSE IF Truthy(p.postcode) /\ record = None
         THEN /\ lookupPc' = "failed"
              /\ lookupError' =
                   Some(<<"Postcode not found", normalizePostcode(p.postcode[1])>>)
              /\ UNCHANGED <<center, radius>>
         ELSE /\ lookupPc' = "expanding"
              /\ lookupError' = None
              /\ center' = Some(IF Truthy(p.postcode) THEN record[1]
                                ELSE syntheticCenter(p))
              /\ radius' = IF p.radiusMeters = None THEN DEFAULT_RADIUS
                           ELSE p.radiusMeters[1]
      /\ UNCHANGED <<dataset, candidates, issued, lookupResult, recordKey,
                     recordResult>>
      /\ UNCHANGED <<searchVars, parseVars, queryVars>>

\* a direct call of lookupPostcodes
LookupCall(Criteria, Options) ==
  /\ lookupPc = "idle"
  /\ recordKey = None
  /\ Len(handles) < MaxHandles
  /\ \E p \in Criteria, o \in Options : lookupPostcodes(p, o)
  /\ UNCHANGED rawParams

\* one turn of the expansion loop: an index query, then the break on an
\* explicit radius or the doubling
ExpandStep ==
  /\ lookupPc = "expanding"
  /\ loopContinues(lookupParams[1], candidates, radius)
  /\ Len(issued) < MaxQueries
  /\ IF ~handles[dbInstance[1]].open
     THEN /\ lookupPc' = "failed"
          /\ lookupError' = Some(<<NotOpenMessage>>)
          /\ UNCHANGED <<candidates, issued, radius>>
     ELSE LET p == lookupParams[1]
              found == queryByRadius(rowsAt(dbPathInUse[1], dataset),
                                     center[1].easting, center[1].northing,
                                     radius, p.adminDistrict, QueryRowLimit)
          IN  /\ candidates' = found
              /\ issued' = Append(issued, [radius |-> radius,
                                           centerE |-> center[1].easting,
                                           centerN |-> center[1].northing,
                                           returned |-> Len(found)])
              /\ UNCHANGED lookupError
              /\ IF p.radiusMeters # None /\ p.radiusMeters[1] # 0
                 THEN /\ lookupPc' = "collected"
                      /\ UNCHANGED radius
                 ELSE /\ radius' = expandRadius(p, found, radius)
                      /\ UNCHANGED lookupPc
  /\ UNCHANGED <<dataset, dbInstance, dbPathInUse, lookupParams, lookupOptions,
                 center, lookupResult, recordKey, recordResult, handles,
                 dbRequested, rawParams>>
  /\ UNCHANGED <<searchVars, parseVars, queryVars>>

\* after the loop: distances, filter, sort and the cut at limit
FinishLookup ==
  /\ \/ lookupPc = "collected"
     \/ /\ lookupPc = "expanding"
        /\ ~loopContinues(lookupParams[1], candidates, radius)
  /\ LET p == lookupParams[1]
         kept == withDistance(p, center[1], candidates)
     IN  lookupResult' = Some([center |-> center[1],
                               postcodes |-> slice(kept, 0, lookupLimit(p)),
                               total |-> Len(kept)])
  /\ lookupPc' = "done"
  /\ UNCHANGED <<dataset, dbInstance, dbPathInUse, lookupParams, lookupOptions,
                 center, radius, candidates, issued, lookupError, recordKey,
                 recordResult, handles, dbRequested, rawParams>>
  /\ UNCHANGED <<searchVars, parseVars, queryVars>>

\* the caller takes the result or the error; the cached handle stays
LookupReturn ==
  /\ lookupPc \in {"done", "failed"}
  /\ lookupPc' = "idle"
  /\ lookupParams' = None
  /\ lookupOptions' = None
  /\ dbRequested' = None
  /\ rawParams' = None
  /\ center' = None
  /\ radius' = 0
  /\ candidates' = <<>>
  /\ issued' = <<>>
  /\ lookupResult' = None
  /\ lookupError' = None
  /\ UNCHANGED <<dataset, dbInstance, dbPathInUse, recordKey, recordResult,
                 handles>>
  /\ UNCHANGED <<searchVars, parseVars, queryVars>>

ValidLookupCall == LookupCall(LookupCriteria, LookupOptions)

NextLookup ==
  \/ ValidLookupCall
  \/ ExpandStep
  \/ FinishLookup
  \/ LookupReturn

SpecLookup == InitLookup /\ [][NextLookup]_vars

\* parameters of the type PostcodeLookupParams that the schema would not
\* let through: a caller of lookupPostcodes may pass radiusMeters 0
TypedCriteria ==
  [postcode : {Some(CenterKey)},
   easting : {None},
   northing : {None},
   limit : Opt({1, 2}),
   radiusMeters : Opt({0, 50}),
   includeSelf : Opt(BOOLEAN),
   adminDistrict : {None}]
  \cup
  [postcode : {None},
   easting : {Some(1000)},
   northing : {Some(1000)},
   limit : Opt({1, 2}),
   radiusMeters : Opt({0, 50}),
   includeSelf : {None},
   adminDistrict : {None}]

TypedLookupCall == LookupCall(TypedCriteria, {[dbPath |-> None]})

NextTyped ==
  \/ TypedLookupCall
  \/ ExpandStep
  \/ FinishLookup
  \/ LookupReturn

SpecTyped == InitLookup /\ [][NextTyped]_vars

\* records at the corner of the first bounding box and just outside its side
NearestRows ==
  {PostcodeRow(PostcodeOf("A"), 1000, 1000, "AD1", "AW1"),
   PostcodeRow(PostcodeOf("G"), 5000, 5000, "AD1", "AW1"),
   PostcodeRow(PostcodeOf("H"), 6500, 1000, "AD1", "AW1"),
   PostcodeRow(PostcodeOf("J"), 1000, 1010, "AD2", "AW2")}

NearestDatasets ==
  {d \in SeqsUpTo(NearestRows, MaxRecords) :
     \A i, j \in 1..Len(d) : i # j => d[i].postcode # d[j].postcode}

NearestCriteria ==
  [postcode : {Some(CenterKey)},
   easting : {None},
   northing : {None},
   limit : Opt({1, 2}),
   radiusMeters : Opt({6000}),
   includeSelf : Opt({TRUE}),
   adminDistrict : Opt({"AD1"})]
  \cup
  [postcode : {None},
   easting : {Some(1000)},
   northing : {Some(1000)},
   limit : Opt({1, 2}),
   radiusMeters : Opt({6000}),
   includeSelf : {None},
   adminDistrict : Opt({"AD1"})]

InitNearest ==
  /\ Idle
  /\ binding = NoBinding
  /\ parsed = None
  /\ QueriesIdle
  /\ dataset \in NearestDatasets
  /\ LookupIdle

NearestCall == LookupCall(NearestCriteria, {[dbPath |-> None]})

NextNearest ==
  \/ NearestCall
  \/ ExpandStep
  \/ FinishLookup
  \/ LookupReturn

SpecNearest == InitNearest /\ [][NextNearest]_vars

(* ------------------------ the lookup-postcodes tool -------------------- *)

RefineMessage == "Provide a postcode or both easting and northing"

\* the issues the object part of PostcodeLookupParamsSchema raises on
\* arguments of the right types
schemaIssues(raw) ==
  {<<"limit", "too_small">> : x \in {1} \cap
     (IF raw.limit # None /\ raw.limit[1] <= 0 THEN {1} ELSE {})}
  \cup
  {<<"limit", "too_big">> : x \in {1} \cap
     (IF raw.limit # None /\ raw.limit[1] > 500 THEN {1} ELSE {})}
  \cup
  {<<"radiusMeters", "too_small">> : x \in {1} \cap
     (IF raw.radiusMeters # None /\ raw.radiusMeters[1] <= 0 THEN {1} ELSE {})}
  \cup
  {<<"radiusMeters", "too_big">> : x \in {1} \cap
     (IF raw.radiusMeters # None /\ raw.radiusMeters[1] > MAX_RADIUS
      THEN {1} ELSE {})}

\* a schema whose refinement takes the two center forms as exclusive
parseLookupParams_Exclusive(raw) ==
  LET pair == raw.easting # None /\ raw.northing # None
      refined == Truthy(raw.postcode) # pair
      issues == schemaIssues(raw) \cup
                (IF refined THEN {} ELSE {<<RefineMessage>>})
  IN  IF issues = {}
      THEN Returned([raw EXCEPT !.limit = IF raw.limit = None THEN Some(10)
                                          ELSE raw.limit])
      ELSE Thrown(issues)

\* PostcodeLookupParamsSchema.parse: the range checks, the refinement
\* postcode || (easting and northing are numbers), and the default limit
parseLookupParams(raw) ==
  LET refined == \/ Truthy(raw.postcode)
                 \/ raw.easting # None /\ raw.northing # None
      issues == schemaIssues(raw) \cup
                (IF refined THEN {} ELSE {<<RefineMessage>>})
  IN  IF issues = {}
      THEN Returned([raw EXCEPT !.limit = IF raw.limit = None THEN Some(10)
                                          ELSE raw.limit])
      ELSE Thrown(issues)

\* the arguments the tool is called with
RawCriteria ==
  [postcode : {None, Some(<<>>), Some(CenterKey)},
   easting : Opt({1000}), northing : Opt({1000}),
   limit : {None, Some(0), Some(1)},
   radiusMeters : Opt({50}),
   includeSelf : {None}, adminDistrict : {None}]

\* the lookup-postcodes handler up to the loop of lookupPostcodes: parse, then
\* lookupPostcodes(params) with no options; a parse error is caught and
\* becomes the error of the response
HandlerCall(Raw) ==
  /\ lookupPc = "idle"
  /\ recordKey = None
  /\ Len(handles) < MaxHandles
  /\ \E raw \in Raw :
       LET checked == parseLookupParams(raw)
       IN  /\ rawParams' = Some(raw)
           /\ IF checked.ok
              THEN lookupPostcodes(checked.value, [dbPath |-> None])
              ELSE /\ lookupPc' = "failed"
                   /\ lookupError' = Some(checked.error)
                   /\ UNCHANGED <<dataset, dbInstance, dbPathInUse,
                                  lookupParams, lookupOptions, center, radius,
                                  candidates, issued, lookupResult, recordKey,
                                  recordResult, handles, dbRequested>>
                   /\ UNCHANGED <<searchVars, parseVars, queryVars>>

ToolCall == HandlerCall(RawCriteria)

NextHandler ==
  \/ ToolCall
  \/ ExpandStep
  \/ FinishLookup
  \/ LookupReturn

SpecHandler == InitLookup /\ [][NextHandler]_vars

\* getPostcodeRecord called on its own
RecordCall(Keys, Options) ==
  /\ lookupPc = "idle"
  /\ recordKey = None
  /\ Len(handles) < MaxHandles
  /\ \E key \in Keys, o \in Options :
       LET db == getDb(handles, dbInstance, dbPathInUse, o.dbPath)
       IN  /\ recordKey' = Some(key)
           /\ dbRequested' = Some(resolveDbPath(o.dbPath))
           /\ handles' = db.handles
           /\ dbInstance' = db.dbInstance
           /\ dbPathInUse' = db.dbPathInUse
           /\ recordResult' =
                IF ~db.ok THEN Some(Thrown(db.error))
                ELSE IF ~db.handles[db.dbInstance[1]].open
                THEN Some(Thrown(<<NotOpenMessage>>))
                ELSE Some(Returned(getPostcodeRecord(
                            rowsAt(db.dbPathInUse[1], dataset), key)))
  /\ UNCHANGED <<dataset, lookupPc, lookupParams, lookupOptions, center, radius,
                 candidates, issued, lookupResult, lookupError, rawParams>>
  /\ UNCHANGED <<searchVars, parseVars, queryVars>>

GetPostcodeRecordCall == RecordCall(RecordKeys, {[dbPath |-> None]})

GetPostcodeRecordReturn ==
  /\ recordKey # None
  /\ recordKey' = None
  /\ recordResult' = None
  /\ dbRequested' = None
  /\ UNCHANGED <<dataset, dbInstance, dbPathInUse, lookupPc, lookupParams,
                 lookupOptions, center, radius, candidates, issued,
                 lookupResult, lookupError, handles, rawParams>>
  /\ UNCHANGED <<searchVars, parseVars, queryVars>>

NextRecord ==
  \/ GetPostcodeRecordCall
  \/ GetPostcodeRecordReturn

SpecRecord == InitLookup /\ [][NextRecord]_vars

(* ------------------------ calls on several dataset paths --------------- *)

\* the dbPath options of the calls: the default, a second dataset, a
\* directory and a path with no file
HandleOptions ==
  [dbPath : {None, Some("other.sqlite"), Some("data"), Some("missing.sqlite")}]

\* lookups by postcode and by coordinates
HandleCriteria ==
  {[postcode |-> c[1], easting |-> c[2], northing |-> c[2], limit |-> Some(1),
    radiusMeters |-> None, includeSelf |-> None, adminDistrict |-> None] :
     c \in {<<Some(CenterKey), None>>, <<None, Some(1000)>>}}

LookupOnPath == LookupCall(HandleCriteria, HandleOptions)

RecordOnPath == RecordCall({CenterKey}, HandleOptions)

NextHandles ==
  \/ LookupOnPath
  \/ ExpandStep
  \/ FinishLookup
  \/ LookupReturn
  \/ RecordOnPath
  \/ GetPostcodeRecordReturn

SpecHandles == InitLookup /\ [][NextHandles]_vars

(* ------------------------- validation properties ---------------------- *)

EndpointLooksHttp ==
  /\ Len(endpoint) >= 4
  /\ endpoint[1] = "h" /\ endpoint[2] = "t" /\ endpoint[3] = "t"
  /\ endpoint[4] = "p"

HasPostcode == params.postcode # None /\ Len(params.postcode[1]) > 0

HasAddress ==
  /\ params.street # None /\ Len(params.street[1]) > 0
  /\ params.city # None /\ Len(params.city[1]) > 0

\* the seven checks in the order of the claim: TRUE where the check fails
FailedChecks ==
  << ~EndpointLooksHttp,
     ~HasPostcode /\ ~HasAddress,
     params.minPrice # None /\ params.minPrice[1] < 0,
     params.maxPrice # None /\ params.maxPrice[1] < 0,
     params.minPrice # None /\ params.maxPrice # None
       /\ params.minPrice[1] > params.maxPrice[1],
     params.offset # None /\ params.offset[1] < 0,
     params.limit # None /\ params.limit[1] <= 0 >>

CheckMessages ==
  << EndpointMessage, KeyMessage, MinPriceMessage, MaxPriceMessage,
     PriceOrderMessage, OffsetMessage, LimitMessage >>

SomeCheckFails == \E i \in 1..7 : FailedChecks[i]

FirstFailing == CHOOSE i \in 1..7 : FailedChecks[i] /\ \A j \in 1..(i - 1) : ~FailedChecks[j]

\* C1: a call whose endpoint or criteria fail validation fails with a
\* validation error, and no query is built, no request is issued and no row
\* is fetched for it.
C1_InvalidFailsBeforeIO ==
  (pc # "idle" /\ SomeCheckFails) =>
    /\ pc = "failed"
    /\ error \in {<<CheckMessages[i]>> : i \in 1..7}
    /\ query = None
    /\ requests = 0
    /\ bindings = <<>>
    /\ response = None

C1_Witness ==
  /\ pc = "failed"
  /\ EndpointLooksHttp /\ HasPostcode
  /\ params.minPrice = Some(1) /\ params.maxPrice = Some(0)
  /\ error = <<PriceOrderMessage>>
  /\ requests = 0 /\ query = None

\* C2: when several checks fail at once the error is the message of the
\* first failing check in the order endpoint, identifying key, minPrice,
\* maxPrice, minPrice <= maxPrice, offset, limit.
C2_FirstFailingCheckReported ==
  (pc # "idle" /\ SomeCheckFails) => error = <<CheckMessages[FirstFailing]>>

C2_Witness ==
  /\ pc = "failed"
  /\ FailedChecks[3] /\ FailedChecks[6] /\ FailedChecks[7]
  /\ error = <<MinPriceMessage>>

\* C3 as stated: a call is accepted only when exactly one identifying form
\* is present, so a postcode given together with street and city is rejected.
C3_ExactlyOneFormAccepted ==
  pc \in {"awaiting", "done"} => (HasPostcode # HasAddress)

\* C3 as amended: the identifying-key error is raised exactly when neither a
\* postcode nor both street and city are present; a postcode given together
\* with street and city is accepted and the query is the postcode form.
C3_AtLeastOneFormAccepted ==
  (pc # "idle" /\ EndpointLooksHttp) =>
    /\ (error = <<KeyMessage>>) <=> (~HasPostcode /\ ~HasAddress)
    /\ (query # None /\ HasPostcode) =>
         /\ \E i \in 1..Len(query[1]) : query[1][i] = "?addr lrcommon:postcode "
         /\ \A i \in 1..Len(query[1]) : query[1][i] # "?addr lrcommon:street "
    /\ (query # None /\ ~HasPostcode) =>
         \E i \in 1..Len(query[1]) : query[1][i] = "?addr lrcommon:street "

C3_Witness ==
  /\ pc = "awaiting"
  /\ HasPostcode /\ HasAddress
  /\ requests = 1
  /\ \E i \in 1..Len(query[1]) : query[1][i] = "?addr lrcommon:postcode "

(* -------------------------- pipeline properties ----------------------- *)

\* words that differ in letter case only
CaseClasses ==
  { {"flat", "Flat", "FLAT"}, {"detached", "Detached", "DETACHED"},
    {"other", "OTHER"} }

SameIgnoringCase(a, b) ==
  a = b \/ \E class \in CaseClasses : a \in class /\ b \in class

\* the record passes the filters of the criteria of the current call
Passes(r) ==
  /\ params.minPrice = None \/ r.price >= params.minPrice[1]
  /\ params.maxPrice = None \/ r.price <= params.maxPrice[1]
  /\ params.propertyType = None
       \/ SameIgnoringCase(r.propertyType, params.propertyType[1])

Count(s, r) == Cardinality({i \in 1..Len(s) : s[i] = r})

Range(s) == {s[i] : i \in 1..Len(s)}

\* C4: total is the number of fetched records that pass the price and
\* category filters, whatever the offset and the limit.
C4_TotalCountsFiltered ==
  pc = "done" =>
    response[1].total = Cardinality({i \in 1..Len(properties) : Passes(properties[i])})

C4_Witness ==
  /\ pc = "done"
  /\ Len(properties) = 2
  /\ response[1].total = 1
  /\ params.offset # None /\ params.offset[1] >= 1
  /\ response[1].properties = <<>>

\* C5: the response carries the requested offset and limit (0 and 10 when
\* omitted) and properties is the slice [offset, offset + limit) of the
\* filtered and sorted list.
C5_PageIsSlice ==
  pc = "done" =>
    LET r == response[1]
        off == IF params.offset = None THEN 0 ELSE params.offset[1]
        lim == IF params.limit = None THEN 10 ELSE params.limit[1]
    IN  /\ r.offset = off
        /\ r.limit = lim
        /\ Len(r.properties) = Max(0, Min(lim, Len(filteredProperties) - off))
        /\ Len(r.properties) <= lim
        /\ \A i \in 1..Len(r.properties) :
             r.properties[i] = filteredProperties[off + i]

C5_Witness ==
  /\ pc = "done"
  /\ params.offset = Some(1) /\ params.limit = Some(1)
  /\ Len(filteredProperties) = 2
  /\ filteredProperties[1] # filteredProperties[2]
  /\ response[1].properties = <<filteredProperties[2]>>

\* C6: the records kept are exactly the fetched records that pass the
\* filters: each passing record is kept as often as it was fetched and no
\* failing record is kept.
C6_KeptAreThosePassing ==
  pc = "done" =>
    \A r \in Range(properties) \cup Range(filteredProperties) :
      Count(filteredProperties, r) = IF Passes(r) THEN Count(properties, r) ELSE 0

C6_Witness ==
  /\ pc = "done"
  /\ params.minPrice = Some(0)
  /\ params.maxPrice = Some(1)
  /\ params.propertyType = Some("FLAT")
  /\ Len(properties) = 2
  /\ Len(filteredProperties) = 1
  /\ filteredProperties[1].price = 1
  /\ filteredProperties[1].propertyType = "flat"

DateNumber(d) == parseDigits(d, 0)

\* the sort key of a record under the criteria of the current call
SortKey(r) == IF params.sortBy = Some("price") THEN r.price ELSE DateNumber(r.date)

Restrict(s, S) == LET In(r) == r \in S IN SelectSeq(s, In)

\* C7: with sortBy given the paginated list is ordered by that field,
\* descending unless sortOrder is 'asc', and records with equal keys keep
\* the relative order of the fetched rows.
C7_SortedAndStable ==
  (pc = "done" /\ params.sortBy # None) =>
    /\ \A i \in 1..(Len(filteredProperties) - 1) :
         IF params.sortOrder = Some("asc")
         THEN SortKey(filteredProperties[i]) <= SortKey(filteredProperties[i + 1])
         ELSE SortKey(filteredProperties[i]) >= SortKey(filteredProperties[i + 1])
    /\ \A r, t \in Range(filteredProperties) :
         SortKey(r) = SortKey(t) =>
           Restrict(filteredProperties, {r, t}) = Restrict(properties, {r, t})

C7_Witness ==
  /\ pc = "done"
  /\ params.sortBy = Some("price") /\ params.sortOrder = None
  /\ Len(properties) = 2 /\ Len(filteredProperties) = 2
  /\ properties[1].price < properties[2].price
  /\ filteredProperties = <<properties[2], properties[1]>>

\* C8: with sortOrder given and sortBy omitted the filtered records are
\* sorted by date in the requested direction.
C8_SortOrderAloneSortsByDate ==
  (pc = "done" /\ params.sortBy = None /\ params.sortOrder # None) =>
    \A i \in 1..(Len(filteredProperties) - 1) :
      IF params.sortOrder = Some("asc")
      THEN DateNumber(filteredProperties[i].date) <= DateNumber(filteredProperties[i + 1].date)
      ELSE DateNumber(filteredProperties[i].date) >= DateNumber(filteredProperties[i + 1].date)

(* --------------------------- mapper properties ------------------------ *)

\* C9: parsePropertyPrice fails exactly when amount, date or property type
\* is missing from the row; otherwise it returns a record whose postcode,
\* street and city are the empty string where the row lacks them.
C9_FailsIffMandatoryMissing ==
  parsed # None =>
    LET out == parsed[1]
    IN  /\ ~out.ok <=> (binding.amount = None \/ binding.date = None
                         \/ binding.propertyType = None)
        /\ ~out.ok => out.error = MissingDataMessage
        /\ out.ok =>
             /\ binding.postcode = None => out.value.postcode = <<>>
             /\ binding.street = None => out.value.street = <<>>
             /\ binding.town = None => out.value.city = <<>>
             /\ binding.postcode # None => out.value.postcode = binding.postcode[1]
             /\ binding.street # None => out.value.street = binding.street[1]
             /\ binding.town # None => out.value.city = binding.town[1]

C9_Witness ==
  /\ parsed # None
  /\ parsed[1].ok
  /\ binding.postcode = None /\ binding.street = None /\ binding.town = None
  /\ binding.category = None
  /\ parsed[1].value.postcode = <<>>
  /\ parsed[1].value.street = <<>>
  /\ parsed[1].value.city = <<>>

\* C10: a row that carries paon or saon yields a record that carries them
\* as its paon and saon.
C10_AddressIdentifiersCarried ==
  (parsed # None /\ parsed[1].ok) =>
    /\ binding.paon # None =>
         /\ "paon" \in DOMAIN parsed[1].value
         /\ parsed[1].value.paon = binding.paon[1]
    /\ binding.saon # None =>
         /\ "saon" \in DOMAIN parsed[1].value
         /\ parsed[1].value.saon = binding.saon[1]

PropertyTypes == {"detached", "semi-detached", "terraced", "flat", "other"}

KnownUris == {DetachedUri, SemiDetachedUri, TerracedUri, FlatUri}

\* C11: for every row with the mandatory fields present the category of the
\* mapped record is one of detached, semi-detached, terraced, flat, other:
\* the four known identifiers map to their named category and every other
\* identifier maps to other, without failing the mapping.
C11_CategoryIsOneOfFive ==
  (parsed # None /\ binding.amount # None /\ binding.date # None
     /\ binding.propertyType # None) =>
    LET out == parsed[1]
        uri == binding.propertyType[1]
    IN  /\ out.ok
        /\ out.value.propertyType \in PropertyTypes
        /\ uri = DetachedUri => out.value.propertyType = "detached"
        /\ uri = SemiDetachedUri => out.value.propertyType = "semi-detached"
        /\ uri = TerracedUri => out.value.propertyType = "terraced"
        /\ uri = FlatUri => out.value.propertyType = "flat"
        /\ uri \notin KnownUris => out.value.propertyType = "other"

(* ------------------------- failure properties ------------------------- *)

LacksMandatory(b) == b.amount = None \/ b.date = None \/ b.propertyType = None

\* C12: a search that reached the remote either fully succeeds or fully
\* fails: a reply with a non-success status fails the call with an error
\* carrying that status and body text, a transport failure fails it, and a
\* single row lacking a mandatory field fails it; a failed call returns no
\* records, and a successful one maps every fetched row.
C12_AllOrNothing ==
  (pc \in {"done", "failed"} /\ requests > 0) =>
    /\ pc = "failed" => response = None
    /\ reply = None => pc = "failed"
    /\ (reply # None /\ ~reply[1].ok) =>
         /\ pc = "failed"
         /\ error = <<"HTTP error", reply[1].status, reply[1].text>>
    /\ (\E i \in 1..Len(bindings) : LacksMandatory(bindings[i])) =>
         /\ pc = "failed"
         /\ error = <<MissingDataMessage>>
    /\ pc = "done" =>
         /\ response # None
         /\ Len(properties) = Len(bindings)

C12_Witness ==
  /\ pc = "failed"
  /\ requests > 0
  /\ bindings = <<GoodBinding, BadBinding>>
  /\ error = <<MissingDataMessage>>
  /\ response = None

(* ------------------------ query builder properties -------------------- *)

Positions(text, piece) == {i \in 1..Len(text) : text[i] = piece}

Maximum(S) == CHOOSE i \in S : \A j \in S : j <= i

Minimum(S) == CHOOSE i \in S : \A j \in S : i <= j

ContainsSeq(text, piece) ==
  \E i \in 0..(Len(text) - Len(piece)) :
    SubSeq(text, i + 1, i + Len(piece)) = piece

NoBoundGiven == ~Truthy(filterStart) /\ ~Truthy(filterEnd)

\* C13: addDateFilters returns its input unchanged whenever no date bound
\* is given, the query has no closing brace, the query has no ORDER BY
\* marker, or the final closing brace comes after the ORDER BY marker.
C13_NoOpOnUnexpectedShape ==
  filteredQuery # None =>
    LET q == queryText[1]
        braces == Positions(q, "}")
        markers == Positions(q, "ORDER BY")
    IN  (\/ NoBoundGiven
         \/ braces = {}
         \/ markers = {}
         \/ \E m \in markers : Maximum(braces) > m)
        => filteredQuery[1] = q

C13_Witness ==
  /\ filteredQuery # None
  /\ Truthy(filterStart)
  /\ queryText[1] = <<"x", "ORDER BY", "}">>
  /\ filteredQuery[1] = queryText[1]

\* C14: when the final closing brace precedes the ORDER BY marker and at
\* least one bound is given, the result is the input with text inserted only
\* immediately before that final brace; the inserted text holds a >=
\* constraint iff a start date is given and a <= constraint iff an end date
\* is given, and removing it gives back the input.
C14_InsertedBeforeFinalBrace ==
  filteredQuery # None =>
    LET q == queryText[1]
        out == filteredQuery[1]
        braces == Positions(q, "}")
        markers == Positions(q, "ORDER BY")
    IN  (/\ ~NoBoundGiven
         /\ braces # {}
         /\ markers # {}
         /\ Maximum(braces) < Minimum(markers))
        =>
        LET at == Maximum(braces)
            added == Len(out) - Len(q)
            inserted == SubSeq(out, at, at + added - 1)
            lower == <<"FILTER(?date >= ", "\"">> \o ValueOrEmpty(filterStart)
                     \o <<"\"", "^^xsd:date)">>
            upper == <<"FILTER(?date <= ", "\"">> \o ValueOrEmpty(filterEnd)
                     \o <<"\"", "^^xsd:date)">>
        IN  /\ added > 0
            /\ SubSeq(out, 1, at - 1) = SubSeq(q, 1, at - 1)
            /\ SubSeq(out, at + added, Len(out)) = SubSeq(q, at, Len(q))
            /\ SubSeq(out, 1, at - 1) \o SubSeq(out, at + added, Len(out)) = q
            /\ Truthy(filterStart) <=> ContainsSeq(inserted, lower)
            /\ Truthy(filterEnd) <=> ContainsSeq(inserted, upper)
            /\ ~Truthy(filterStart) => Positions(inserted, "FILTER(?date >= ") = {}
            /\ ~Truthy(filterEnd) => Positions(inserted, "FILTER(?date <= ") = {}

C14_Witness ==
  /\ filteredQuery # None
  /\ queryText[1] = <<"}", "}", "ORDER BY">>
  /\ filterStart = None
  /\ filterEnd = Some(Date23)
  /\ filteredQuery[1] =
       <<"}", "\n", "FILTER(?date <= ", "\"">> \o Date23
       \o <<"\"", "^^xsd:date)", "\n", "}", "ORDER BY">>

\* C15: the built query binds every search key through a VALUES clause
\* holding the escaped literal: VALUES ?postcode {"p'"^^xsd:string} for a
\* postcode, VALUES ?street {"s'"^^xsd:string} and VALUES ?town
\* {"c'"^^xsd:string} for an address, x' being x with every double quote
\* replaced by backslash and double quote.
C15_KeysBoundThroughValues ==
  (searchKey # None /\ queryText # None) =>
    LET key == searchKey[1]
        ValuesClause(variable, x) ==
          <<"VALUES ", variable, " ", "{", "\"">> \o escapeQuotes(x)
          \o <<"\"", "^^xsd:string", "}">>
    IN  /\ key.postcode # None =>
             ContainsSeq(queryText[1], ValuesClause("?postcode", key.postcode[1]))
        /\ key.street # None =>
             ContainsSeq(queryText[1], ValuesClause("?street", key.street[1]))
        /\ key.city # None =>
             ContainsSeq(queryText[1], ValuesClause("?town", key.city[1]))

(* ------------------------ postcode lookup properties ------------------ *)

\* the call got its dataset handle
DatasetOpened ==
  /\ lookupPc # "idle"
  /\ ~(lookupPc = "failed" /\ lookupError[1][1] = "Postcode database not found")

\* rows whose postcode is the key up to letter case
RowsStoredAs(key) ==
  {i \in 1..Len(dataset) :
     /\ Len(dataset[i].postcode) = Len(key)
     /\ \A j \in 1..Len(key) : dataset[i].postcode[j] = UpperChar(key[j])}

\* C16: lookupPostcodes resolves its center before any index query: a
\* postcode with no matching record fails the call with a not-found error
\* and no neighbours; a matching postcode makes that record the center; with
\* no postcode the center is a synthetic record with the given easting and
\* northing and empty metadata fields.  (Postcodes here match up to letter
\* case; keys with other spacing are the matter of C17.)
C16_CenterResolvedFirst ==
  DatasetOpened =>
    LET p == lookupParams[1]
    IN  /\ lookupPc # "failed" => center # None
        /\ lookupPc = "failed" =>
             /\ center = None /\ issued = <<>> /\ lookupResult = None
        /\ lookupResult # None => lookupResult[1].center = center[1]
        /\ (Truthy(p.postcode) /\ RowsStoredAs(p.postcode[1]) = {}) =>
             /\ lookupPc = "failed"
             /\ lookupError[1][1] = "Postcode not found"
        /\ Truthy(p.postcode) =>
             \A i \in RowsStoredAs(p.postcode[1]) :
               /\ lookupPc # "failed"
               /\ center[1].postcode = dataset[i].postcode
               /\ center[1].easting = dataset[i].easting
               /\ center[1].northing = dataset[i].northing
               /\ center[1].positionalQuality = dataset[i].positional_quality
               /\ center[1].adminDistrictCode = dataset[i].admin_district_code
               /\ center[1].adminWardCode = dataset[i].admin_ward_code
        /\ ~Truthy(p.postcode) =>
             /\ lookupPc # "failed"
             /\ center[1].easting = p.easting[1]
             /\ center[1].northing = p.northing[1]
             /\ center[1].postcode = <<>>
             /\ center[1].positionalQuality = 0
             /\ center[1].countryCode = ""
             /\ center[1].nhsRegionalHaCode = ""
             /\ center[1].nhsHaCode = ""
             /\ center[1].adminCountyCode = ""
             /\ center[1].adminDistrictCode = ""
             /\ center[1].adminWardCode = ""

C16_Witness ==
  /\ lookupPc = "failed"
  /\ lookupParams[1].postcode = Some(AbsentKey)
  /\ Len(dataset) = MaxRecords
  /\ lookupError = Some(<<"Postcode not found", AbsentKey>>)
  /\ lookupResult = None

\* the key without its whitespace, in upper case, with one space before the
\* final three characters
CanonicalPostcode(key) ==
  LET compact == toUpperCase(SelectSeq(key, LAMBDA c : c \notin {" ", "\t", "\n"}))
  IN  IF Len(compact) <= 3 THEN compact
      ELSE SubSeq(compact, 1, Len(compact) - 3) \o <<" ">>
           \o SubSeq(compact, Len(compact) - 2, Len(compact))

\* C17: a lookup key is reduced to canonical form (upper case, a single
\* space before the final three characters) before matching: a key that
\* differs from a stored postcode only in letter case or in whitespace
\* (leading, trailing, missing or repeated inner spaces) resolves to that
\* stored record.
C17_CanonicalKeyResolves ==
  (recordResult # None /\ recordResult[1].ok) =>
    \A i \in 1..Len(dataset) :
      CanonicalPostcode(recordKey[1]) = dataset[i].postcode =>
        /\ recordResult[1].value # None
        /\ recordResult[1].value[1].postcode = dataset[i].postcode

\* squared planar distance between a record and the center
SquaredDistance(record, c) ==
  (record.easting - c.easting) * (record.easting - c.easting)
  + (record.northing - c.northing) * (record.northing - c.northing)

\* C18: with an explicit radius R every returned neighbour lies at planar
\* Euclidean distance <= R from the center, so candidates in the corners of
\* the bounding box are excluded from the neighbours and from total.
C18_NeighboursWithinRadius ==
  (lookupResult # None /\ lookupParams[1].radiusMeters # None) =>
    LET R == lookupParams[1].radiusMeters[1]
        res == lookupResult[1]
    IN  /\ \A i \in 1..Len(res.postcodes) :
             /\ SquaredDistance(res.postcodes[i], res.center) <= R * R
             /\ res.postcodes[i].distanceMeters
                  = Sqrt(SquaredDistance(res.postcodes[i], res.center))
        /\ res.total <=
             Cardinality({i \in 1..Len(candidates) :
                            SquaredDistance(candidates[i], res.center) <= R * R})

C18_Witness ==
  /\ lookupResult # None
  /\ lookupParams[1].radiusMeters = Some(50)
  /\ lookupParams[1].limit = None
  /\ \E i \in 1..Len(candidates) : candidates[i].postcode = PostcodeOf("D")
  /\ \E i \in 1..Len(lookupResult[1].postcodes) :
       lookupResult[1].postcodes[i].postcode = PostcodeOf("B")
  /\ \A i \in 1..Len(lookupResult[1].postcodes) :
       lookupResult[1].postcodes[i].postcode # PostcodeOf("D")

\* C19: the index queries of one call follow the expansion protocol.  With
\* an explicit radius R exactly one query is issued, at R.  Without one the
\* first query uses 5000, every later query doubles the radius of the one
\* before it, from the same center, and follows a query that returned fewer
\* than limit candidates; no query follows one that returned at least limit
\* candidates; no query has a radius above 200000; and the call ends only
\* after a query that filled the limit or whose doubled radius passes 200000.
C19_ExpansionProtocol ==
  (lookupPc \in {"expanding", "collected", "done"}) =>
    LET p == lookupParams[1]
        limit == IF p.limit = None THEN 10 ELSE p.limit[1]
        n == Len(issued)
    IN  /\ \A i \in 1..n :
             /\ issued[i].radius <= 200000
             /\ issued[i].centerE = center[1].easting
             /\ issued[i].centerN = center[1].northing
        /\ p.radiusMeters # None =>
             /\ n <= 1
             /\ n = 1 => issued[1].radius = p.radiusMeters[1]
             /\ lookupPc \in {"collected", "done"} => n = 1
        /\ p.radiusMeters = None =>
             /\ n >= 1 => issued[1].radius = 5000
             /\ \A i \in 2..n :
                  /\ issued[i].radius = 2 * issued[i - 1].radius
                  /\ issued[i - 1].returned < limit
             /\ lookupPc = "done" =>
                  /\ n >= 1
                  /\ \/ issued[n].returned >= limit
                     \/ 2 * issued[n].radius > 200000

C19_Witness ==
  /\ lookupPc = "done"
  /\ lookupParams[1].radiusMeters = None
  /\ lookupParams[1].limit = Some(2)
  /\ Len(issued) = 2
  /\ issued[1].returned = 1
  /\ issued[2].radius = 10000
  /\ issued[2].returned = 2
  /\ Len(lookupResult[1].postcodes) = 2

SelfAmong(records) ==
  {i \in 1..Len(records) : records[i].postcode = center[1].postcode}

\* candidates that pass the circle test of an explicit radius
WithinGivenRadius ==
  {i \in 1..Len(candidates) :
     lookupParams[1].radiusMeters # None =>
       SquaredDistance(candidates[i], center[1])
         <= lookupParams[1].radiusMeters[1] * lookupParams[1].radiusMeters[1]}

SelfLeftOut ==
  (lookupResult # None /\ Truthy(lookupParams[1].postcode)
     /\ lookupParams[1].includeSelf \in {None, Some(FALSE)}) =>
    /\ SelfAmong(lookupResult[1].postcodes) = {}
    /\ lookupResult[1].total
         = Cardinality(WithinGivenRadius \ SelfAmong(candidates))

\* C20 as stated: a center given by postcode with includeSelf false or
\* omitted never appears among the neighbours and is not counted in total;
\* with includeSelf true a center that is among the candidates is returned
\* with distance 0.
C20_SelfExcludedOrReturned ==
  /\ SelfLeftOut
  /\ (lookupResult # None /\ Truthy(lookupParams[1].postcode)
        /\ lookupParams[1].includeSelf = Some(TRUE)
        /\ SelfAmong(candidates) # {}) =>
       \E j \in SelfAmong(lookupResult[1].postcodes) :
         lookupResult[1].postcodes[j].distanceMeters = Sqrt(0)

\* C20, amended: a center given by postcode with includeSelf false or
\* omitted never appears among the neighbours and is not counted in total;
\* with includeSelf true a center that is among the candidates is counted in
\* total with distance 0, and it is among the returned neighbours exactly
\* when fewer than limit candidates at the center's own point come before it
\* in index order.
C20_SelfExcludedOrCounted ==
  /\ SelfLeftOut
  /\ (lookupResult # None /\ Truthy(lookupParams[1].postcode)
        /\ lookupParams[1].includeSelf = Some(TRUE)
        /\ SelfAmong(candidates) # {}) =>
       LET res == lookupResult[1]
           limit == IF lookupParams[1].limit = None THEN 10
                    ELSE lookupParams[1].limit[1]
           self == CHOOSE i \in SelfAmong(candidates) : TRUE
           before == {i \in 1..(self - 1) :
                        SquaredDistance(candidates[i], center[1]) = 0}
       IN  /\ res.total = Cardinality(WithinGivenRadius)
           /\ \A j \in SelfAmong(res.postcodes) :
                res.postcodes[j].distanceMeters = Sqrt(0)
           /\ SelfAmong(res.postcodes) # {} <=> Cardinality(before) < limit

C20_Witness ==
  /\ lookupResult # None
  /\ Truthy(lookupParams[1].postcode)
  /\ lookupParams[1].includeSelf = None
  /\ SelfAmong(candidates) # {}
  /\ Len(candidates) = 3
  /\ lookupResult[1].total = 2
  /\ SelfAmong(lookupResult[1].postcodes) = {}

\* C21: with an administrative-district filter every candidate of every
\* expansion step and every returned neighbour carries the filter's district
\* code, while the center is resolved whatever its own district is.
C21_NeighboursInDistrict ==
  (lookupPc \in {"expanding", "collected", "done"}
     /\ TruthyWord(lookupParams[1].adminDistrict)) =>
    LET district == lookupParams[1].adminDistrict[1]
    IN  /\ center # None
        /\ \A i \in 1..Len(candidates) :
             candidates[i].adminDistrictCode = district
        /\ lookupResult # None =>
             \A i \in 1..Len(lookupResult[1].postcodes) :
               lookupResult[1].postcodes[i].adminDistrictCode = district

C21_Witness ==
  /\ lookupPc = "done"
  /\ lookupParams[1].adminDistrict = Some("AD2")
  /\ lookupParams[1].radiusMeters = None
  /\ center[1].adminDistrictCode = "AD1"
  /\ \E i \in 1..Len(dataset) : dataset[i].postcode = PostcodeOf("B")
  /\ Len(lookupResult[1].postcodes) = 1
  /\ lookupResult[1].postcodes[1].postcode = PostcodeOf("C")

\* where the index query returned the postcode
PlaceAmongCandidates(code) ==
  CHOOSE i \in 1..Len(candidates) : candidates[i].postcode = code

\* C22: the returned neighbours are in ascending order of distance from the
\* center, and neighbours at equal distance keep the order in which the
\* index query returned them.
C22_AscendingAndStable ==
  lookupResult # None =>
    LET out == lookupResult[1].postcodes
        c == lookupResult[1].center
    IN  \A i, j \in 1..Len(out) :
          i < j =>
            /\ SquaredDistance(out[i], c) <= SquaredDistance(out[j], c)
            /\ SquaredDistance(out[i], c) = SquaredDistance(out[j], c) =>
                 PlaceAmongCandidates(out[i].postcode)
                   < PlaceAmongCandidates(out[j].postcode)

C22_Witness ==
  /\ lookupResult # None
  /\ Len(candidates) = 3
  /\ candidates[1].postcode = PostcodeOf("B")
  /\ candidates[2].postcode = PostcodeOf("F")
  /\ candidates[3].postcode = PostcodeOf("A")
  /\ Len(lookupResult[1].postcodes) = 3
  /\ lookupResult[1].postcodes[1].postcode = PostcodeOf("F")
  /\ lookupResult[1].postcodes[2].postcode = PostcodeOf("A")
  /\ lookupResult[1].postcodes[3].postcode = PostcodeOf("B")

\* candidates left after the self filter and the distance filter
KeptCandidates ==
  IF Truthy(lookupParams[1].postcode)
     /\ lookupParams[1].includeSelf \in {None, Some(FALSE)}
  THEN WithinGivenRadius \ SelfAmong(candidates)
  ELSE WithinGivenRadius

\* C23: for every successful call total is the number of candidates left
\* after the self and distance filters, before truncation, and postcodes
\* holds exactly the first limit of them: min(limit, total) entries, each a
\* kept candidate, none twice, and no kept candidate left out is nearer than
\* a returned one.
C23_TotalAndTruncation ==
  lookupResult # None =>
    LET res == lookupResult[1]
        limit == IF lookupParams[1].limit = None THEN 10
                 ELSE lookupParams[1].limit[1]
        returned == {PlaceAmongCandidates(res.postcodes[i].postcode) :
                       i \in 1..Len(res.postcodes)}
    IN  /\ res.total = Cardinality(KeptCandidates)
        /\ Len(res.postcodes) = Min(limit, res.total)
        /\ Cardinality(returned) = Len(res.postcodes)
        /\ returned \subseteq KeptCandidates
        /\ \A k \in KeptCandidates \ returned : \A r \in returned :
             SquaredDistance(candidates[r], res.center)
               <= SquaredDistance(candidates[k], res.center)

C23_Witness ==
  /\ lookupResult # None
  /\ lookupParams[1].limit = Some(2)
  /\ Len(candidates) = 3
  /\ lookupResult[1].total = 3
  /\ Len(lookupResult[1].postcodes) = 2

(* ------------------------ lookup-postcodes tool properties ------------- *)

\* the two center forms of the arguments in progress
GivesPostcode == Truthy(rawParams[1].postcode)

GivesPair == rawParams[1].easting # None /\ rawParams[1].northing # None

\* the call was turned away by the schema with nothing done on the dataset
RejectedUntouched ==
  /\ lookupPc = "failed"
  /\ dbRequested = None
  /\ lookupParams = None
  /\ center = None
  /\ issued = <<>>
  /\ lookupResult = None

\* C24 (as stated): the postcode lookup accepts criteria only when exactly one
\* center form is given: criteria with neither a postcode nor both easting
\* and northing are rejected before the dataset is touched, and criteria that
\* give a postcode together with an easting/northing pair are rejected too.
C24_ExactlyOneCenterForm ==
  rawParams # None =>
    /\ (~GivesPostcode /\ ~GivesPair) => RejectedUntouched
    /\ (GivesPostcode /\ GivesPair) => RejectedUntouched

\* C24 (amended): the postcode lookup accepts criteria when at least one
\* center form is given: criteria with neither form are rejected with the
\* schema's message before the dataset is touched; criteria in range that
\* give both forms are accepted, and the postcode decides the center (its
\* record, or a not-found error), the pair being ignored.
C24_AtLeastOneCenterForm ==
  rawParams # None =>
    /\ (~GivesPostcode /\ ~GivesPair) =>
         /\ RejectedUntouched
         /\ <<RefineMessage>> \in lookupError[1]
    /\ (GivesPostcode \/ GivesPair) /\ schemaIssues(rawParams[1]) = {} =>
         /\ dbRequested # None
         /\ lookupParams # None
    /\ (GivesPostcode /\ GivesPair /\ lookupPc # "failed") =>
         /\ dbRequested # None
         /\ center # None
         /\ center[1].postcode = normalizePostcode(rawParams[1].postcode[1])
    /\ (GivesPostcode /\ GivesPair /\ lookupPc = "failed"
          /\ schemaIssues(rawParams[1]) = {}) =>
         lookupError[1][1] = "Postcode not found"

\* both forms were given and the call returned neighbours of the postcode
C24_Witness ==
  /\ rawParams # None
  /\ GivesPostcode
  /\ GivesPair
  /\ lookupResult # None
  /\ lookupResult[1].center.postcode = PostcodeOf("A")
  /\ Len(lookupResult[1].postcodes) > 0


(* ------------------------ dataset handle properties -------------------- *)

\* a step in which lookupPostcodes or getPostcodeRecord is entered
CallStep == dbRequested = None /\ dbRequested' # None

\* the call entered resolves the path of the cached handle
CacheHit == dbInstance # None /\ dbPathInUse = dbRequested'

\* C25: over any sequence of lookups, a dataset handle is opened only when no
\* handle is cached or the resolved path differs from the path of the cached
\* handle; a call whose resolved path equals the cached path reuses the
\* cached handle without opening or closing anything; and the handle is
\* opened read-only.
C25_OpenOnlyOnPathChange ==
  [][/\ handles' # handles => CallStep /\ ~CacheHit
     /\ (CallStep /\ CacheHit) =>
          /\ handles' = handles
          /\ dbInstance' = dbInstance
          /\ dbPathInUse' = dbPathInUse
     /\ Len(handles') > Len(handles) =>
          /\ Len(handles') = Len(handles) + 1
          /\ handles'[Len(handles')] =
               [path |-> dbRequested'[1], open |-> TRUE, readonly |-> TRUE]
          /\ dbInstance' = Some(Len(handles'))
     /\ \A i \in 1..Len(handles') : handles'[i].readonly]_vars

\* a second handle was opened after a change of path, the first one closed,
\* and a call on the new path is in progress
C25_Witness ==
  /\ Len(handles) = 2
  /\ ~handles[1].open
  /\ handles[1].path = DEFAULT_DB_PATH
  /\ handles[2] = [path |-> "other.sqlite", open |-> TRUE, readonly |-> TRUE]
  /\ dbInstance = Some(2)
  /\ dbRequested = Some("other.sqlite")
  /\ recordResult # None


\* the places of the open handles
OpenHandles == {i \in 1..Len(handles) : handles[i].open}

\* the call in progress was handed a closed handle
HandedClosedHandle ==
  \/ lookupPc = "failed" /\ lookupError = Some(<<NotOpenMessage>>)
  \/ recordResult = Some(Thrown(<<NotOpenMessage>>))

\* C30: in every reachable state of the dataset-handle cache, the cached
\* handle is either absent or an open handle that was opened on the cached
\* path, and at most one handle is open: after a getDb call fails (file
\* missing, or the open throws after the previous handle was closed), no
\* later call is handed a closed handle.
C30_CachedHandleOpen ==
  /\ dbInstance # None =>
       /\ handles[dbInstance[1]].open
       /\ Some(handles[dbInstance[1]].path) = dbPathInUse
  /\ Cardinality(OpenHandles) <= 1
  /\ ~HandedClosedHandle

(* ------------------------ date bounds in the sent query ---------------- *)

\* the pattern block of a query text: everything before its final brace
PatternBlock(text) ==
  IF Positions(text, "}") = {} THEN <<>>
  ELSE SubSeq(text, 1, Maximum(Positions(text, "}")) - 1)

DateConstraint(op, date) ==
  <<op, "\"">> \o date \o <<"\"", "^^xsd:date)">>

\* C26: for every valid criteria with fromDate and/or toDate and for every
\* search key (including a postcode, street or city whose text contains
\* ORDER BY or a brace), the query text that searchProperties sends to the
\* remote contains the matching inclusive date constraint(s) inside the
\* pattern block: the date bounds are never silently dropped.
C26_DateBoundsSent ==
  query # None =>
    /\ Truthy(params.fromDate) =>
         ContainsSeq(PatternBlock(query[1]),
                     DateConstraint("FILTER(?date >= ", params.fromDate[1]))
    /\ Truthy(params.toDate) =>
         ContainsSeq(PatternBlock(query[1]),
                     DateConstraint("FILTER(?date <= ", params.toDate[1]))

(* ------------------------ termination of the expansion ----------------- *)

\* C27: lookupPostcodes terminates on every value of its parameter type and
\* every dataset: the expansion loop issues a bounded number of index
\* queries (at most 6 when starting from the default radius), and never the
\* same query twice, also when radiusMeters is 0 and fewer than limit
\* candidates exist at the center.
C27_BoundedQueries ==
  /\ Len(issued) <= 6
  /\ \A i, j \in 1..Len(issued) : i < j => issued[i].radius < issued[j].radius


(* ------------------------ expansion up to the ceiling ------------------ *)

\* the largest radius of the doubling sequence from the default that does
\* not exceed the ceiling
RECURSIVE LastRadius(_)
LastRadius(r) == IF r * 2 > MAX_RADIUS THEN r ELSE LastRadius(r * 2)

\* C28: with no explicit radius, lookupPostcodes returns fewer than limit
\* neighbours only after expansion has run to the ceiling: if
\* postcodes.length < limit, then the last index query used the largest
\* radius of the doubling sequence that does not exceed 200,000; in
\* particular the center's own postcode, which is excluded from the result,
\* does not count towards stopping the expansion.
C28_ShortOnlyAtCeiling ==
  (/\ lookupResult # None
   /\ lookupParams[1].radiusMeters = None
   /\ Len(lookupResult[1].postcodes) < lookupLimit(lookupParams[1]))
  => /\ issued # <<>>
     /\ issued[Len(issued)].radius = LastRadius(DEFAULT_RADIUS)


(* ------------------------ nearest neighbours --------------------------- *)

\* the dataset records that pass the district and self filters of the call
\* and lie within the explicit radius when one is given
Eligible ==
  LET p == lookupParams[1]
      includeSelf == IF p.includeSelf = None THEN FALSE ELSE p.includeSelf[1]
  IN  {i \in 1..Len(dataset) :
         /\ TruthyWord(p.adminDistrict) =>
              dataset[i].admin_district_code = p.adminDistrict[1]
         /\ (Truthy(p.postcode) /\ ~includeSelf) =>
              dataset[i].postcode # normalizePostcode(p.postcode[1])
         /\ p.radiusMeters # None =>
              SquaredDistance(dataset[i], center[1])
                <= p.radiusMeters[1] * p.radiusMeters[1]}

\* C29: the neighbours returned by lookupPostcodes are the nearest eligible
\* ones: no dataset record that passes the district and self filters (and
\* lies within the explicit radius when one is given) and is missing from
\* the result is strictly closer to the center than a returned neighbour.
C29_NearestEligible ==
  lookupResult # None =>
    LET returned == lookupResult[1].postcodes
    IN  \A i \in Eligible :
          (\A k \in 1..Len(returned) : returned[k].postcode # dataset[i].postcode)
          => \A k \in 1..Len(returned) :
               ~(SquaredDistance(dataset[i], center[1])
                   < returned[k].distanceMeters.sqrtOf)


====
